---- MODULE Spec2Model ----
(***************************************************************************)
(* Batch VM recovery from snapshots (azure-snapshots-recovery).            *)
(*                                                                         *)
(* The module models batchOrchestrator (src/functions/orchestrator.ts):    *)
(* candidate resolution with its manual retry loop, the batch loop with    *)
(* its fan-out (callActivity per snapshot) and fan-in (Task.all), the      *)
(* inter-batch timer and the final aggregate, together with the error      *)
(* taxonomy of common/errors.ts that the orchestrator consults.            *)
(*                                                                         *)
(* One action is one run of the generator from the point where it is       *)
(* resumed up to its next yield (or its return / throw).  The create-VM    *)
(* activities of a batch run concurrently with each other; each one        *)
(* completes or fails in an action of its own.                             *)
(***************************************************************************)
EXTENDS Integers, Sequences, FiniteSets, TLC

\* ------------------------------------------------------------------------
\* Bounds of the model
\* ------------------------------------------------------------------------

\* largest number of snapshots the candidate resolution returns
MaxCandidates == 3

\* largest value of SNAP_RECOVERY_BATCH_SIZE explored
MaxBatchSize == 2

\* ------------------------------------------------------------------------
\* Program constants
\* ------------------------------------------------------------------------

\* orchestrator.ts: const maxAttempts = 3
maxAttempts == 3

\* values of SNAP_RECOVERY_BATCH_SIZE explored (default '20')
BatchSizes == 1..MaxBatchSize

\* iterations of the batch loop followed in one run: a loop that advances
\* needs at most one per candidate
MaxIterations == MaxCandidates + 1

\* the integers parseInt can make of SNAP_RECOVERY_BATCH_SIZE and of
\* SNAP_RECOVERY_DELAY_BETWEEN_BATCHES: the variables are not validated
ConfigBatchSizes == (0 - 1)..MaxBatchSize

ConfigDelays == {0 - 5, 0, 10}

\* values of SNAP_RECOVERY_DELAY_BETWEEN_BATCHES explored (default '10')
Delays == {0, 10}

\* regions, and the target subnets with the region each one lies in
Locations == {"westeurope", "northeurope"}

SubnetLocationChoices ==
    { <<>>,
      << [subnetId |-> "subnetA", location |-> "westeurope"] >>,
      << [subnetId |-> "subnetB", location |-> "northeurope"] >>,
      << [subnetId |-> "subnetA", location |-> "westeurope"],
         [subnetId |-> "subnetC", location |-> "westeurope"] >>,
      << [subnetId |-> "subnetA", location |-> "westeurope"],
         [subnetId |-> "subnetB", location |-> "northeurope"] >> }

\* a field that a JavaScript object does not have
Undefined == "undefined"

\* a count that a result object does not carry
NoCount == -1

Min(a, b) == IF a <= b THEN a ELSE b

\* Math.pow(b, e) for a natural exponent
RECURSIVE Pow(_, _)
Pow(b, e) == IF e = 0 THEN 1 ELSE b * Pow(b, e - 1)

\* ------------------------------------------------------------------------
\* common/errors.ts
\* ------------------------------------------------------------------------

\* An error value: its class, the statusCode / code / name properties the
\* classifier inspects (0 and "" stand for a missing, falsy property) and
\* its message as the sequence of the pieces it was formatted from.
Err(cls, statusCode, code, name, message) ==
    [cls |-> cls, statusCode |-> statusCode, code |-> code,
     name |-> name, message |-> message]

AppErrorClasses ==
    {"PermanentError", "TransientError", "FatalError", "BusinessError", "AzureError"}

IsAppError_PermanentOnly(error) ==
    error.cls \in {"PermanentError", "BusinessError"}

\* error instanceof AppError
IsAppError(error) == error.cls \in AppErrorClasses

\* error instanceof PermanentError (BusinessError extends PermanentError)
IsPermanentError(error) == error.cls \in {"PermanentError", "BusinessError"}

\* error instanceof FatalError
IsFatalError(error) == error.cls = "FatalError"

\* error instanceof TransientError
IsTransientError(error) == error.cls = "TransientError"

\* AzureError.isRetryableStatusCode
isRetryableStatusCode(statusCode) ==
    IF statusCode = 0 THEN FALSE
    ELSE statusCode \in {408, 429, 500, 502, 503, 504}

isRetryable_AzureOnly(error) ==
    CASE error.cls = "AzureError" -> isRetryableStatusCode(error.statusCode)
      [] OTHER                    -> FALSE

\* the isRetryable property of a classified error
isRetryable(error) ==
    CASE error.cls = "TransientError" -> TRUE
      [] error.cls = "AzureError"     -> isRetryableStatusCode(error.statusCode)
      [] OTHER                        -> FALSE

\* error.message?.includes('validation')
MessageIncludesValidation(error) ==
    \E k \in 1..Len(error.message) : error.message[k] = "validation"

\* `${error.message}` inside a template string
TemplateMessage(error) ==
    IF error.message = <<>> THEN <<Undefined>> ELSE error.message

\* classifyError(error)
classifyError(error) ==
    IF IsAppError(error) THEN error
    ELSE IF error.statusCode # 0 \/ error.code # ""
    THEN Err("AzureError", error.statusCode, error.code, "AzureError",
             IF error.message = <<>> THEN <<"Azure operation failed">>
                                     ELSE error.message)
    ELSE IF error.code = "ETIMEDOUT" \/ error.code = "ECONNRESET"
    THEN Err("TransientError", 0, "", "TransientError",
             <<"Network error: ">> \o TemplateMessage(error))
    ELSE IF error.name = "ValidationError" \/ MessageIncludesValidation(error)
    THEN Err("BusinessError", 0, "", "BusinessError",
             <<"Validation failed: ">> \o TemplateMessage(error))
    ELSE Err("TransientError", 0, "", "TransientError",
             <<"Unknown error: ">> \o TemplateMessage(error))

\* The failures an activity's collaborators raise, as they reach the
\* activity's outer catch: errors already classified by the activity and
\* raw errors of the SDKs.
ActivityFailures ==
    { Err("PermanentError", 0, "", "PermanentError", <<"Input is required">>),
      Err("BusinessError", 0, "", "BusinessError", <<"only os-disk">>),
      Err("FatalError", 0, "", "FatalError", <<"configuration">>),
      Err("Error", 404, "NotFound", "RestError", <<"not found">>),
      Err("Error", 0, "", "Error", <<"boom">>) }

\* the error value of a slot that holds no error
NoError == Err("none", 0, "", "", <<>>)

\* ------------------------------------------------------------------------
\* State
\* ------------------------------------------------------------------------

VARIABLES
    pc,                  \* where the generator is suspended
    batchSize,           \* parseInt(SNAP_RECOVERY_BATCH_SIZE)
    delayBetweenBatches, \* parseInt(SNAP_RECOVERY_DELAY_BETWEEN_BATCHES)
    attempt,             \* attempt counter of the get-snapshots loop
    lastError,           \* lastError of the get-snapshots loop
    recoveryInfo,        \* result of the get-snapshots activity
    i,                   \* index of the batch loop
    tasks,               \* one entry per snapshot: the task made for it
    firstError,          \* error of the first failed task of the open Task.all
    allResults,          \* allResults
    returned,            \* value the orchestrator returned
    thrown,              \* error the orchestrator threw
    batches,             \* history: snapshot indices of each batch dispatched
    snapshotCalls,       \* history: calls of the get-snapshots activity
    backoffTimers,       \* history: timers created by the retry loop
    batchTimers,         \* history: timers created between batches
    failures             \* history: classified error of each failed attempt

\* the state of vmCreationPoller and of the VM-creation control queue
VARIABLES
    queue,               \* messages in the queue that can be delivered
    invocation,          \* the running invocation of vmCreationPoller
    timers,              \* setTimeout callbacks armed in the worker process
    vmStatus,            \* what the control plane reports for the VM
    maxRetries,          \* parseInt(SNAP_RECOVERY_VM_POLL_MAX_RETRIES)
    polls,               \* history: one record per status check
    sent,                \* history: messages sent by scheduleVmPollRetry
    crashes,             \* history: crashes of the worker process
    poisoned             \* history: the host gave up delivering a message

\* a computation of retry delays for successive attempts
VARIABLES
    delayCalc

\* deliveries of a poll message that left a copy of it in the queue
VARIABLES
    duplicates

\* one call of classifyError
VARIABLES
    classified

\* one run of a create activity for one creation unit
VARIABLES
    unit

\* one invocation of an intake function (queueStart or httpStart)
VARIABLES
    intake

\* one invocation of vmCreationPoller with an arbitrary queue item
VARIABLES
    pollEntry

\* one CircuitBreaker object, its clock and the calls of execute
VARIABLES
    breaker

orchVars == <<pc, batchSize, delayBetweenBatches, attempt, lastError,
              recoveryInfo, i, tasks, firstError, allResults, returned, thrown,
              batches, snapshotCalls, backoffTimers, batchTimers, failures>>

pollVars == <<queue, invocation, timers, vmStatus, maxRetries, polls, sent,
              crashes, poisoned>>

delayVars == <<delayCalc>>

dupVars == <<duplicates>>

classifyVars == <<classified>>

createVars == <<unit>>

intakeVars == <<intake>>

entryVars == <<pollEntry>>

breakerVars == <<breaker>>

vars == <<orchVars, pollVars, delayVars, dupVars, classifyVars, createVars,
          intakeVars, entryVars, breakerVars>>

\* what the steps of one part leave alone
notOrchVars == <<pollVars, delayVars, dupVars, classifyVars, createVars,
                 intakeVars, entryVars, breakerVars>>

notPollVars == <<orchVars, delayVars, dupVars, classifyVars, createVars,
                 intakeVars, entryVars, breakerVars>>

notDelayVars == <<orchVars, pollVars, dupVars, classifyVars, createVars,
                  intakeVars, entryVars, breakerVars>>

\* recoveryInfo before the activity has returned (let recoveryInfo;)
NoRecoveryInfo == [defined |-> FALSE, snapshots |-> <<>>, subnetLocations |-> <<>>]

\* nothing returned yet
NoResult ==
    [success |-> FALSE, message |-> Undefined, totalProcessed |-> NoCount,
     successful |-> NoCount, failed |-> NoCount, results |-> <<>>]

\* the snapshot lists the candidate resolution can return
SnapshotLists ==
    UNION { [1..n -> [location : Locations]] : n \in 0..MaxCandidates }

\* the values the get-snapshots activity can return
RecoveryInfos ==
    { [defined |-> TRUE, snapshots |-> s, subnetLocations |-> l] :
        s \in SnapshotLists, l \in SubnetLocationChoices }

\* a snapshot for which no task has been made yet
NoTask == [state |-> "none", subnetId |-> Undefined, error |-> NoError]

NumSnapshots == Len(recoveryInfo.snapshots)

\* ------------------------------------------------------------------------
\* Pure parts of batchOrchestrator
\* ------------------------------------------------------------------------

\* a retry loop that gives up at once on fatal errors only
DontRetry_FatalOnly(classifiedError) == IsFatalError(classifiedError)

\* "Don't retry permanent or fatal errors" in the get-snapshots loop
DontRetry(classifiedError) ==
    IsPermanentError(classifiedError) \/ IsFatalError(classifiedError)

\* a retry loop that allows one attempt more
LastAttempt_OneMore(a) == a > maxAttempts

\* "Don't retry if this was the last attempt": attempt >= maxAttempts
LastAttempt(a) == a >= maxAttempts

\* the delay before the next attempt of the get-snapshots loop, in ms:
\* Math.min(1000 * Math.pow(2, attempt - 1), 30000)
SnapshotsRetryDelay(a) == Min(1000 * Pow(2, a - 1), 30000)

\* an emptiness test that looks at the subnet locations only
NothingToRecover_SubnetsOnly(info) == Len(info.subnetLocations) = 0

\* !recoveryInfo?.snapshots?.length || !recoveryInfo?.subnetLocations?.length
NothingToRecover(info) ==
    Len(info.snapshots) = 0 \/ Len(info.subnetLocations) = 0

\* the value returned when there is nothing to recover
EmptyResult ==
    [success |-> FALSE,
     message |-> "No snapshots found in the same region of subnets",
     totalProcessed |-> NoCount, successful |-> NoCount, failed |-> NoCount,
     results |-> <<>>]

\* a slice that stops one snapshot short of the end of the list
BatchSlice_DropsLast(from, size, n) ==
    [k \in 1..(IF Min(from + size, n - 1) > from
               THEN Min(from + size, n - 1) - from ELSE 0) |-> from + k]

\* the position Array.prototype.slice takes for the argument k on a list of
\* n elements: a negative argument counts from the end of the list
SliceIndex(k, n) ==
    IF k < 0 THEN (IF n + k > 0 THEN n + k ELSE 0) ELSE Min(k, n)

\* recoveryInfo.snapshots.slice(from, from + size) of a list of n snapshots,
\* as the sequence of their 1-based positions
BatchSlice(from, size, n) ==
    [k \in 1..(IF SliceIndex(from + size, n) > SliceIndex(from, n)
               THEN SliceIndex(from + size, n) - SliceIndex(from, n) ELSE 0)
        |-> SliceIndex(from, n) + k]

\* the positions of the snapshots of that batch
BatchIndices(from, size, n) ==
    { BatchSlice(from, size, n)[k] : k \in 1..Len(BatchSlice(from, size, n)) }

\* a lookup that takes the first subnet whatever its location
FindMatchingSubnet_AnyLocation(subnetLocations, location) ==
    IF Len(subnetLocations) = 0 THEN 0 ELSE 1

\* recoveryInfo.subnetLocations.find(l => l.location === location):
\* the position of the first match, 0 when there is none
FindMatchingSubnet(subnetLocations, location) ==
    LET hits == { k \in 1..Len(subnetLocations) :
                    subnetLocations[k].location = location }
    IN IF hits = {} THEN 0
       ELSE CHOOSE k \in hits : \A m \in hits : k <= m

\* an entry that targets the last subnet of the list once a match exists
MakeTask_LastSubnet(info, idx) ==
    LET m == FindMatchingSubnet(info.subnetLocations, info.snapshots[idx].location)
    IN IF m = 0
       THEN [state |-> "resolved", subnetId |-> Undefined, error |-> NoError]
       ELSE [state |-> "pending",
             subnetId |-> info.subnetLocations[Len(info.subnetLocations)].subnetId,
             error |-> NoError]

\* the entry of batchTasks made for one snapshot
MakeTask(info, idx) ==
    LET m == FindMatchingSubnet(info.subnetLocations, info.snapshots[idx].location)
    IN IF m = 0
       THEN [state |-> "resolved", subnetId |-> Undefined, error |-> NoError]
       ELSE [state |-> "pending", subnetId |-> info.subnetLocations[m].subnetId,
             error |-> NoError]

\* a dispatch that makes the tasks of every snapshot from the batch's start on
DispatchBatch_NoSlice(info, ts, from, size) ==
    [idx \in 1..Len(ts) |->
        IF idx > from THEN MakeTask(info, idx) ELSE ts[idx]]

\* batch.map(...): the tasks after the batch starting at from is dispatched
DispatchBatch(info, ts, from, size) ==
    [idx \in 1..Len(ts) |->
        IF idx \in BatchIndices(from, size, Len(ts)) THEN MakeTask(info, idx)
        ELSE ts[idx]]

\* a missing-subnet entry that does not carry success: false
TaskResult_NoFailureFlag(task, idx) == [success |-> Undefined, snapshot |-> idx]

\* the value a task contributes to batchResults
TaskResult(task, idx) ==
    IF task.state = "resolved"
    THEN [success |-> "false", snapshot |-> idx]
    ELSE [success |-> Undefined, snapshot |-> idx]

\* a join that is satisfied by the first task to complete
AllTasksCompleted_AnyOne(ts, idxs) ==
    \E idx \in idxs : ts[idx].state \in {"resolved", "completed"}

\* Task.all has a value: every task of the batch has one
AllTasksCompleted(ts, idxs) ==
    \A idx \in idxs : ts[idx].state \in {"resolved", "completed"}

\* the value of Task.all(batchTasks)
BatchResults(ts, from, size) ==
    LET batch == BatchSlice(from, size, Len(ts))
    IN [k \in 1..Len(batch) |-> TaskResult(ts[batch[k]], batch[k])]

\* results.filter(result => result.success !== false).length
RECURSIVE CountSuccessful(_)
CountSuccessful(results) ==
    IF results = <<>> THEN 0
    ELSE (IF Head(results).success # "false" THEN 1 ELSE 0)
         + CountSuccessful(Tail(results))

\* an aggregate whose success flag only says that something was processed
AggregateResult_SuccessIfProcessed(results) ==
    LET totalSuccessful == CountSuccessful(results)
    IN [success |-> Len(results) > 0,
        message |-> Undefined,
        totalProcessed |-> Len(results),
        successful |-> totalSuccessful,
        failed |-> Len(results) - totalSuccessful,
        results |-> results]

\* the aggregate returned after the batch loop
AggregateResult(results) ==
    LET totalSuccessful == CountSuccessful(results)
    IN [success |-> totalSuccessful > 0,
        message |-> Undefined,
        totalProcessed |-> Len(results),
        successful |-> totalSuccessful,
        failed |-> Len(results) - totalSuccessful,
        results |-> results]

\* a delay that is also applied after the last batch
DelayNeeded_AfterLast(from, size, n, delay) == delay > 0

\* i + batchSize < snapshots.length && delayBetweenBatches > 0
DelayNeeded(from, size, n, delay) == from + size < n /\ delay > 0

\* no delay is being computed
NoDelayCalc ==
    [site |-> "none",
     cfg |-> [maxAttempts |-> 0, initialDelayMs |-> 0, maxDelayMs |-> 0,
              backoffMultiplier |-> <<1, 1>>],
     attempt |-> 0, prev |-> <<0, 1>>, delay |-> <<0, 1>>,
     product |-> <<0, 1>>]

\* the delay computation is not part of the run
DelayIdle == delayCalc = NoDelayCalc

\* a VmCreationPollMessage as the queue holds it: its retryCount, the
\* visibility timeout it was sent with (seconds, as a fraction) and the
\* number of times the host has dequeued it
PollMessage(rc, vis, dq) ==
    [retryCount |-> rc, visDelay |-> vis, dequeueCount |-> dq]

\* no classifyError call, no create activity and no intake function is part
\* of the run, and the queue hands every message out once
NoClassified ==
    [stage |-> "idle", raw |-> NoError, threw |-> FALSE,
     first |-> NoError, second |-> NoError]

NoUnit ==
    [activity |-> "none", missing |-> "none", diskProfile |-> "os-disk",
     pc |-> "idle",
     effects |-> {}, logs |-> <<>>, raw |-> NoError, caught |-> NoError,
     result |-> [kind |-> "none", success |-> FALSE, error |-> NoError]]

NoIntake ==
    [function |-> "none", stage |-> "idle", body |-> "none",
     parsed |-> [targetSubnetIds |-> [kind |-> "undefined", items |-> <<>>],
                 targetResourceGroup |-> "undefined",
                 maxTimeGenerated |-> "undefined",
                 flags |-> "undefined"],
     started |-> FALSE, response |-> "none"]

\* vmCreationPoller was not invoked with an arbitrary queue item
NoPollEntry ==
    [stage |-> "idle", form |-> "none", missing |-> {}, hasSnapshot |-> FALSE,
     dequeueCount |-> 0, checked |-> FALSE, caught |-> NoError,
     response |-> "none"]

\* no CircuitBreaker was constructed
NoBreaker ==
    [failureThreshold |-> 0, timeoutMs |-> 0, state |-> "CLOSED",
     failures |-> 0, lastFailureTime |-> 0, now |-> 0, calls |-> <<>>]

OthersIdle ==
    /\ duplicates = 0
    /\ pollEntry = NoPollEntry
    /\ breaker = NoBreaker
    /\ classified = NoClassified
    /\ unit = NoUnit
    /\ intake = NoIntake

\* no invocation of the poller is running
NoInvocation == [stage |-> "none", msg |-> PollMessage(0, <<0, 1>>, 0)]

\* no asynchronous creation was started: nothing for the poller to do
PollerIdle ==
    /\ queue = {}
    /\ invocation = NoInvocation
    /\ timers = {}
    /\ vmStatus = "NotFound"
    /\ maxRetries = 0
    /\ polls = <<>>
    /\ sent = <<>>
    /\ crashes = 0
    /\ poisoned = FALSE

\* ------------------------------------------------------------------------
\* Initial state: the orchestration was started, nothing has run
\* ------------------------------------------------------------------------

Init ==
    /\ pc = "start"
    /\ batchSize \in BatchSizes
    /\ delayBetweenBatches \in Delays
    /\ attempt = 0
    /\ lastError = NoError
    /\ recoveryInfo = NoRecoveryInfo
    /\ i = 0
    /\ tasks = <<>>
    /\ firstError = NoError
    /\ allResults = <<>>
    /\ returned = NoResult
    /\ thrown = NoError
    /\ batches = <<>>
    /\ snapshotCalls = 0
    /\ backoffTimers = 0
    /\ batchTimers = 0
    /\ failures = <<>>
    /\ PollerIdle
    /\ DelayIdle
    /\ OthersIdle

\* ------------------------------------------------------------------------
\* Steps of the generator
\* ------------------------------------------------------------------------

\* the outer catch: throw classifyError(error)
Throw(error) ==
    /\ pc' = "threw"
    /\ thrown' = classifyError(error)

\* the orchestrator starts: first attempt of the get-snapshots activity
Start ==
    /\ pc = "start"
    /\ attempt' = 1
    /\ snapshotCalls' = snapshotCalls + 1
    /\ pc' = "awaitSnapshots"
    /\ UNCHANGED <<batchSize, delayBetweenBatches, lastError, recoveryInfo, i,
                   tasks, firstError, allResults, returned, thrown, batches,
                   backoffTimers, batchTimers>>
    /\ UNCHANGED <<failures, notOrchVars>>

\* one iteration of the batch loop from index from, with results so far rs:
\* dispatch the batch, or leave the loop and return the aggregate
EnterIteration(info, ts, from, rs) ==
    IF from < Len(info.snapshots)
    THEN /\ Len(batches) < MaxIterations
         /\ tasks' = DispatchBatch(info, ts, from, batchSize)
         /\ batches' = Append(batches,
                               BatchSlice(from, batchSize, Len(info.snapshots)))
         /\ i' = from
         /\ firstError' = NoError
         /\ pc' = "join"
         /\ UNCHANGED <<returned, thrown>>
    ELSE /\ returned' = AggregateResult(rs)
         /\ pc' = "returned"
         /\ i' = from
         /\ UNCHANGED <<tasks, batches, firstError, thrown>>

\* the get-snapshots activity returned info
SnapshotsReturned(info) ==
    /\ pc = "awaitSnapshots"
    /\ recoveryInfo' = info
    /\ IF NothingToRecover(info)
       THEN /\ returned' = EmptyResult
            /\ pc' = "returned"
            /\ tasks' = [idx \in 1..Len(info.snapshots) |-> NoTask]
            /\ UNCHANGED <<i, firstError, thrown, batches>>
       ELSE EnterIteration(info, [idx \in 1..Len(info.snapshots) |-> NoTask],
                           0, <<>>)
    /\ UNCHANGED <<batchSize, delayBetweenBatches, attempt, lastError,
                   allResults, snapshotCalls, backoffTimers, batchTimers>>
    /\ UNCHANGED <<failures, notOrchVars>>

\* the get-snapshots activity failed with error
SnapshotsFailed(error) ==
    /\ pc = "awaitSnapshots"
    /\ LET classifiedError == classifyError(error)
       IN /\ lastError' = classifiedError
          /\ failures' = Append(failures, classifiedError)
          /\ IF DontRetry(classifiedError)
             THEN /\ Throw(classifiedError)
                  /\ UNCHANGED backoffTimers
             ELSE IF LastAttempt(attempt)
             THEN \* break; recoveryInfo is undefined: throw lastError
                  /\ Throw(classifiedError)
                  /\ UNCHANGED backoffTimers
             ELSE /\ backoffTimers' = backoffTimers + 1
                  /\ pc' = "backoff"
                  /\ UNCHANGED thrown
    /\ UNCHANGED <<batchSize, delayBetweenBatches, attempt, recoveryInfo, i,
                   tasks, firstError, allResults, returned, batches,
                   snapshotCalls, batchTimers>>
    /\ UNCHANGED notOrchVars

\* the backoff timer fired: next attempt
BackoffFired ==
    /\ pc = "backoff"
    /\ attempt' = attempt + 1
    /\ snapshotCalls' = snapshotCalls + 1
    /\ pc' = "awaitSnapshots"
    /\ UNCHANGED <<batchSize, delayBetweenBatches, lastError, recoveryInfo, i,
                   tasks, firstError, allResults, returned, thrown, batches,
                   backoffTimers, batchTimers>>
    /\ UNCHANGED <<failures, notOrchVars>>

\* createVmActivity returned the VM of snapshot idx (the orchestrator
\* observes its tasks only while it is suspended in Task.all)
TaskCompleted(idx) ==
    /\ pc = "join"
    /\ idx \in 1..Len(tasks)
    /\ tasks[idx].state = "pending"
    /\ tasks' = [tasks EXCEPT ![idx].state = "completed"]
    /\ UNCHANGED <<pc, batchSize, delayBetweenBatches, attempt, lastError,
                   recoveryInfo, i, firstError, allResults, returned, thrown,
                   batches, snapshotCalls, backoffTimers, batchTimers>>
    /\ UNCHANGED <<failures, notOrchVars>>

\* createVmActivity of snapshot idx failed: its outer catch classifies the
\* failure and re-throws it
TaskFailed(idx, failure) ==
    /\ pc = "join"
    /\ idx \in 1..Len(tasks)
    /\ tasks[idx].state = "pending"
    /\ LET classifiedError == classifyError(failure)
       IN /\ tasks' = [tasks EXCEPT ![idx].state = "failed",
                                    ![idx].error = classifiedError]
          /\ firstError' = IF firstError = NoError
                           THEN classifiedError ELSE firstError
    /\ UNCHANGED <<pc, batchSize, delayBetweenBatches, attempt, lastError,
                   recoveryInfo, i, allResults, returned, thrown, batches,
                   snapshotCalls, backoffTimers, batchTimers>>
    /\ UNCHANGED <<failures, notOrchVars>>

\* Task.all yielded the results of the batch
JoinReturned ==
    /\ pc = "join"
    /\ AllTasksCompleted(tasks, BatchIndices(i, batchSize, Len(tasks)))
    /\ LET rs == allResults \o BatchResults(tasks, i, batchSize)
       IN /\ allResults' = rs
          /\ IF DelayNeeded(i, batchSize, NumSnapshots, delayBetweenBatches)
             THEN /\ batchTimers' = batchTimers + 1
                  /\ pc' = "timer"
                  /\ UNCHANGED <<i, tasks, firstError, returned, thrown, batches>>
             ELSE /\ EnterIteration(recoveryInfo, tasks, i + batchSize, rs)
                  /\ UNCHANGED batchTimers
    /\ UNCHANGED <<batchSize, delayBetweenBatches, attempt, lastError,
                   recoveryInfo, snapshotCalls, backoffTimers>>
    /\ UNCHANGED <<failures, notOrchVars>>

\* Task.all faulted: a task of the batch failed
JoinThrew ==
    /\ pc = "join"
    /\ firstError # NoError
    /\ Throw(firstError)
    /\ UNCHANGED <<batchSize, delayBetweenBatches, attempt, lastError,
                   recoveryInfo, i, tasks, firstError, allResults, returned,
                   batches, snapshotCalls, backoffTimers, batchTimers>>
    /\ UNCHANGED <<failures, notOrchVars>>

\* the timer between two batches fired
BatchTimerFired ==
    /\ pc = "timer"
    /\ EnterIteration(recoveryInfo, tasks, i + batchSize, allResults)
    /\ UNCHANGED <<batchSize, delayBetweenBatches, attempt, lastError,
                   recoveryInfo, allResults, snapshotCalls, backoffTimers,
                   batchTimers>>
    /\ UNCHANGED <<failures, notOrchVars>>

Next ==
    \/ Start
    \/ \E info \in RecoveryInfos : SnapshotsReturned(info)
    \/ \E error \in ActivityFailures : SnapshotsFailed(error)
    \/ BackoffFired
    \/ \E idx \in 1..MaxCandidates : TaskCompleted(idx)
    \/ \E idx \in 1..MaxCandidates, failure \in ActivityFailures :
          TaskFailed(idx, failure)
    \/ JoinReturned
    \/ JoinThrew
    \/ BatchTimerFired

Spec == Init /\ [][Next]_vars

\* the orchestration was started under any integer configuration
ConfigInit ==
    /\ pc = "start"
    /\ batchSize \in ConfigBatchSizes
    /\ delayBetweenBatches \in ConfigDelays
    /\ attempt = 0
    /\ lastError = NoError
    /\ recoveryInfo = NoRecoveryInfo
    /\ i = 0
    /\ tasks = <<>>
    /\ firstError = NoError
    /\ allResults = <<>>
    /\ returned = NoResult
    /\ thrown = NoError
    /\ batches = <<>>
    /\ snapshotCalls = 0
    /\ backoffTimers = 0
    /\ batchTimers = 0
    /\ failures = <<>>
    /\ PollerIdle
    /\ DelayIdle
    /\ OthersIdle

SpecConfig == ConfigInit /\ [][Next]_vars

\* ------------------------------------------------------------------------
\* Retry delays: executeActivityWithRetry, the get-snapshots loop, the poller
\* ------------------------------------------------------------------------

\* attempts a delay is computed for in one run
MaxDelayAttempts == 6

\* a JavaScript number that is a multiple of a negative power of two, kept
\* exactly as <<numerator, denominator>>
Frac(n, d) == <<n, d>>

FMul(a, b) == <<a[1] * b[1], a[2] * b[2]>>

FLeq(a, b) == a[1] * b[2] <= b[1] * a[2]

FEq(a, b) == a[1] * b[2] = b[1] * a[2]

\* Math.min
FMin(a, b) == IF FLeq(a, b) THEN a ELSE b

\* Math.pow for a natural exponent
RECURSIVE FPow(_, _)
FPow(b, e) == IF e = 0 THEN Frac(1, 1) ELSE FMul(b, FPow(b, e - 1))

RetryConfig(n, initial, cap, multiplier) ==
    [maxAttempts |-> n, initialDelayMs |-> initial, maxDelayMs |-> cap,
     backoffMultiplier |-> multiplier]

\* RetryPolicies.transient, .azure and .critical
RetryPolicies ==
    { RetryConfig(5, 1000, 30000, Frac(2, 1)),
      RetryConfig(3, 2000, 20000, Frac(3, 2)),
      RetryConfig(7, 500, 60000, Frac(2, 1)) }

\* the retryConfig parameter: the policies and what a caller may pass
RetryConfigs ==
    RetryPolicies \cup
    { RetryConfig(n, initial, cap, multiplier) :
        n \in {3, 5, 7}, initial \in {500, 1000, 2000},
        cap \in {1500, 20000, 60000}, multiplier \in {Frac(2, 1), Frac(3, 2)} }

\* a delay that multiplies once too often
RetryDelay_ExponentAttempt(cfg, a) ==
    FMin(FMul(Frac(cfg.initialDelayMs, 1), FPow(cfg.backoffMultiplier, a)),
         Frac(cfg.maxDelayMs, 1))

\* Math.min(initialDelayMs * Math.pow(backoffMultiplier, attempt - 1),
\*          maxDelayMs)
RetryDelay(cfg, a) ==
    FMin(FMul(Frac(cfg.initialDelayMs, 1), FPow(cfg.backoffMultiplier, a - 1)),
         Frac(cfg.maxDelayMs, 1))

\* Math.min(baseDelay * Math.pow(1.5, Math.min(retryCount, 5)), maxDelay),
\* in seconds
PollDelay(baseDelay, maxDelay, retryCount) ==
    FMin(FMul(Frac(baseDelay, 1), FPow(Frac(3, 2), Min(retryCount, 5))),
         Frac(maxDelay, 1))

\* the get-snapshots loop seen as a retry configuration
SnapshotsRetryConfig == RetryConfig(maxAttempts, 1000, 30000, Frac(2, 1))

\* SNAP_RECOVERY_VM_POLL_DELAY_SECONDS and ..._MAX_DELAY_SECONDS, the counter
\* running up to SNAP_RECOVERY_VM_POLL_MAX_RETRIES
PollDelayConfigs ==
    { RetryConfig(n, baseDelay, maxDelay, Frac(3, 2)) :
        n \in {MaxDelayAttempts}, baseDelay \in {30, 60, 120},
        maxDelay \in {100, 600} }

NoFrac == Frac(0, 1)

DelayCalc(site, cfg, a, prev, delay, product) ==
    [site |-> site, cfg |-> cfg, attempt |-> a, prev |-> prev,
     delay |-> delay, product |-> product]

\* the orchestrator is not part of the run
OrchestratorIdle ==
    /\ pc = "idle"
    /\ batchSize = 1
    /\ delayBetweenBatches = 0
    /\ attempt = 0
    /\ lastError = NoError
    /\ recoveryInfo = NoRecoveryInfo
    /\ i = 0
    /\ tasks = <<>>
    /\ firstError = NoError
    /\ allResults = <<>>
    /\ returned = NoResult
    /\ thrown = NoError
    /\ batches = <<>>
    /\ snapshotCalls = 0
    /\ backoffTimers = 0
    /\ batchTimers = 0
    /\ failures = <<>>

\* a call site with its configuration, before the first failed attempt
DelayInit ==
    /\ OrchestratorIdle
    /\ PollerIdle
    /\ OthersIdle
    /\ \E site \in {"executeActivityWithRetry", "batchOrchestrator",
                    "vmCreationPoller"} :
       \E cfg \in CASE site = "executeActivityWithRetry" -> RetryConfigs
                    [] site = "batchOrchestrator" -> {SnapshotsRetryConfig}
                    [] OTHER -> PollDelayConfigs :
           delayCalc = DelayCalc(site, cfg, 0, NoFrac, NoFrac,
                                 Frac(cfg.initialDelayMs, 1))

\* the delay of the next attempt at a call site; the product is kept by
\* multiplying once per attempt
DelayComputed(site, delay) ==
    /\ delayCalc.site = site
    /\ delayCalc.attempt < MaxDelayAttempts
    /\ delayCalc' =
          [delayCalc EXCEPT
              !.attempt = @ + 1,
              !.prev = delayCalc.delay,
              !.delay = delay,
              !.product = IF delayCalc.attempt = 0 THEN @
                          ELSE FMul(@, delayCalc.cfg.backoffMultiplier)]
    /\ UNCHANGED notDelayVars

\* executeActivityWithRetry: attempt failed, is retryable and is not the last
RetryDelayComputed ==
    /\ delayCalc.attempt + 1 < delayCalc.cfg.maxAttempts
    /\ DelayComputed("executeActivityWithRetry",
                     RetryDelay(delayCalc.cfg, delayCalc.attempt + 1))

\* batchOrchestrator: attempt failed, is retried and is not the last
SnapshotsDelayComputed ==
    /\ ~LastAttempt(delayCalc.attempt + 1)
    /\ DelayComputed("batchOrchestrator",
                     Frac(SnapshotsRetryDelay(delayCalc.attempt + 1), 1))

\* vmCreationPoller: the creation is in progress and retries are left
PollDelayComputed ==
    /\ DelayComputed("vmCreationPoller",
                     PollDelay(delayCalc.cfg.initialDelayMs,
                               delayCalc.cfg.maxDelayMs,
                               delayCalc.attempt + 1))

DelayNext ==
    \/ RetryDelayComputed
    \/ SnapshotsDelayComputed
    \/ PollDelayComputed

SpecDelay == DelayInit /\ [][DelayNext]_vars

\* ------------------------------------------------------------------------
\* vmCreationPoller and the VM-creation control queue, for one job
\* ------------------------------------------------------------------------

\* largest SNAP_RECOVERY_VM_POLL_MAX_RETRIES of a run
MaxPollRetries == 4

\* times the host hands one message to the function before it moves the
\* message to the poison queue
MaxDeliveries == 2

\* crashes of the worker process in one run
MaxCrashes == 1

\* SNAP_RECOVERY_VM_POLL_DELAY_SECONDS || '60'
PollBaseDelay == 60

\* SNAP_RECOVERY_VM_POLL_MAX_DELAY_SECONDS || '600'
PollMaxDelay == 600

\* sendMessage without a visibilityTimeout: the message is visible at once
NoVisibilityDelay == Frac(0, 1)

\* what the control plane holds for the VM
VmStatuses == {"NotFound", "Creating", "Succeeded", "Failed"}

\* what virtualMachines.get can give while the VM is in a status: the status
\* itself, or an error other than NotFound
Observations(status) == {status, "Error"}

\* the VmCreationResult of checkVmCreationStatus
CheckResult(success, vmInfo, hasPollerMessage, rc) ==
    [success |-> success, vmInfo |-> vmInfo,
     hasPollerMessage |-> hasPollerMessage, retryCount |-> rc]

\* a status check that takes every error of the get for "still in progress"
checkVmCreationStatus_ErrorContinues(pollMessage, observed) ==
    CASE observed = "Succeeded" -> CheckResult(TRUE, TRUE, FALSE, 0)
      [] observed = "Failed" -> CheckResult(FALSE, FALSE, FALSE, 0)
      [] OTHER -> CheckResult(FALSE, FALSE, TRUE, pollMessage.retryCount + 1)

\* checkVmCreationStatus(pollMessage) for what the get gave
checkVmCreationStatus(pollMessage, observed) ==
    CASE observed = "NotFound" ->
            \* still being created: retryCount: (pollMessage.retryCount || 0) + 1
            CheckResult(FALSE, FALSE, TRUE, pollMessage.retryCount + 1)
      [] observed = "Succeeded" ->
            CheckResult(TRUE, TRUE, FALSE, 0)
      [] observed = "Failed" ->
            CheckResult(FALSE, FALSE, FALSE, 0)
      [] observed = "Creating" ->
            CheckResult(FALSE, FALSE, TRUE, pollMessage.retryCount + 1)
      [] OTHER ->
            \* any other error of the get: { success: false, error }
            CheckResult(FALSE, FALSE, FALSE, 0)

\* a retry test that allows the counter to reach the maximum
RetryAllowed_Inclusive(rc, max) == rc <= max

\* retryCount < maxRetries
RetryAllowed(rc, max) == rc < max

\* the branch vmCreationPoller takes for a result
Outcome(result, max) ==
    IF result.success /\ result.vmInfo THEN "Completed"
    ELSE IF result.hasPollerMessage
    THEN IF RetryAllowed(result.retryCount, max) THEN "Retry"
         ELSE "FailedTimeout"
    ELSE "FailedPermanent"

TerminalOutcomes == {"Completed", "FailedPermanent", "FailedTimeout"}

\* jobStatus of the JobLogEntry a branch uploads
LogEntryOf(outcome) ==
    CASE outcome = "Completed" -> "Restore Completed"
      [] outcome \in {"FailedTimeout", "FailedPermanent"} -> "Restore Failed"
      [] OTHER -> "none"

\* scheduleVmPollRetry(message, delaySeconds): the message it sends, with
\* retryCount: (message.retryCount || 0) + 1 and no visibility timeout
scheduleVmPollRetry(rc, delaySeconds) ==
    PollMessage(rc + 1, NoVisibilityDelay, 0)

\* what uploadLog throws, as it reaches the poller's catch
LogIngestionError ==
    Err("Error", 0, "", "Error", <<"Unable to upload logs">>)

\* the poller's catch: a permanent error discards the message, any other is
\* thrown to the host
PollerRethrows(error) == ~IsPermanentError(classifyError(error))

\* one status check of the chain
Poll(msg, observed, outcome, ended) ==
    [retryCount |-> msg.retryCount, dequeueCount |-> msg.dequeueCount,
     observed |-> observed, outcome |-> outcome,
     armed |-> outcome = "Retry", entry |-> LogEntryOf(outcome),
     ended |-> ended]

\* the job was submitted by createVirtualMachineAsync: its first poll message,
\* retryCount 0, sent with the base delay as visibility timeout
PollerInit ==
    /\ OrchestratorIdle
    /\ DelayIdle
    /\ OthersIdle
    /\ queue = {PollMessage(0, Frac(PollBaseDelay, 1), 0)}
    /\ invocation = NoInvocation
    /\ timers = {}
    /\ vmStatus = "NotFound"
    /\ maxRetries \in (MaxPollRetries - 1)..MaxPollRetries
    /\ polls = <<>>
    /\ sent = <<>>
    /\ crashes = 0
    /\ poisoned = FALSE

\* the running invocation ended: how the last status check ended
EndPoll(how) == polls' = [polls EXCEPT ![Len(polls)].ended = how]

\* the host makes a message visible again, or moves it to the poison queue
\* once it was dequeued MaxDeliveries times
Redeliver(msg) ==
    IF msg.dequeueCount < MaxDeliveries
    THEN /\ queue' = queue \cup {msg}
         /\ UNCHANGED poisoned
    ELSE /\ poisoned' = TRUE
         /\ UNCHANGED queue

\* the host dequeues a message and invokes vmCreationPoller with it
Deliver(m) ==
    /\ invocation.stage = "none"
    /\ m \in queue
    /\ queue' = queue \ {m}
    /\ invocation' = [stage |-> "checking",
                      msg |-> [m EXCEPT !.dequeueCount = @ + 1]]
    /\ UNCHANGED <<timers, vmStatus, maxRetries, polls, sent, crashes,
                   poisoned>>
    /\ UNCHANGED notPollVars

\* checkVmCreationStatus returned and the poller took its branch; in the
\* in-progress branch it arms the timer and returns, and the host deletes
\* the message
StatusChecked(observed) ==
    /\ invocation.stage = "checking"
    /\ observed \in Observations(vmStatus)
    /\ LET result == checkVmCreationStatus(invocation.msg, observed)
           outcome == Outcome(result, maxRetries)
       IN IF outcome = "Retry"
          THEN /\ timers' = timers \cup
                     { [retryCount |-> result.retryCount,
                        delay |-> PollDelay(PollBaseDelay, PollMaxDelay,
                                            result.retryCount),
                        from |-> invocation.msg.retryCount] }
               /\ polls' = Append(polls, Poll(invocation.msg, observed,
                                              outcome, "returned"))
               /\ invocation' = NoInvocation
          ELSE /\ polls' = Append(polls, Poll(invocation.msg, observed,
                                              outcome, "running"))
               /\ invocation' = [invocation EXCEPT !.stage = "logging"]
               /\ UNCHANGED timers
    /\ UNCHANGED <<queue, vmStatus, maxRetries, sent, crashes, poisoned>>
    /\ UNCHANGED notPollVars

\* uploadLog returned: the invocation returns, the host deletes the message
LogUploaded ==
    /\ invocation.stage = "logging"
    /\ EndPoll("returned")
    /\ invocation' = NoInvocation
    /\ UNCHANGED <<queue, timers, vmStatus, maxRetries, sent, crashes,
                   poisoned>>
    /\ UNCHANGED notPollVars

\* uploadLog threw: the catch classifies the error and throws it to the
\* host, which keeps the message
LogUploadFailed ==
    /\ invocation.stage = "logging"
    /\ IF PollerRethrows(LogIngestionError)
       THEN /\ EndPoll("threw")
            /\ Redeliver(invocation.msg)
       ELSE /\ EndPoll("returned")
            /\ UNCHANGED <<queue, poisoned>>
    /\ invocation' = NoInvocation
    /\ UNCHANGED <<timers, vmStatus, maxRetries, sent, crashes>>
    /\ UNCHANGED notPollVars

\* the setTimeout callback runs: scheduleVmPollRetry sends the message
TimerFired(t) ==
    /\ t \in timers
    /\ timers' = timers \ {t}
    /\ LET retryMessage == scheduleVmPollRetry(t.retryCount, t.delay)
       IN /\ queue' = queue \cup {retryMessage}
          /\ sent' = Append(sent, [from |-> t.from,
                                   retryCount |-> retryMessage.retryCount,
                                   visDelay |-> retryMessage.visDelay,
                                   backoff |-> t.delay,
                                   afterPolls |-> Len(polls)])
    /\ UNCHANGED <<invocation, vmStatus, maxRetries, polls, crashes, poisoned>>
    /\ UNCHANGED notPollVars

\* the setTimeout callback runs and scheduleVmPollRetry throws: the callback
\* catches the error and logs it
TimerSendFailed(t) ==
    /\ t \in timers
    /\ timers' = timers \ {t}
    /\ UNCHANGED <<queue, invocation, vmStatus, maxRetries, polls, sent,
                   crashes, poisoned>>
    /\ UNCHANGED notPollVars

\* the worker process crashes or restarts: its timers are gone, the message
\* of a running invocation was not deleted and becomes visible again
Crash ==
    /\ crashes < MaxCrashes
    /\ invocation.stage # "none" \/ timers # {}
    /\ crashes' = crashes + 1
    /\ timers' = {}
    /\ invocation' = NoInvocation
    /\ IF invocation.stage = "none"
       THEN UNCHANGED <<queue, poisoned, polls>>
       ELSE /\ Redeliver(invocation.msg)
            /\ IF invocation.stage = "logging" THEN EndPoll("crashed")
               ELSE UNCHANGED polls
    /\ UNCHANGED <<vmStatus, maxRetries, sent>>
    /\ UNCHANGED notPollVars

\* the creation goes on in the control plane
VmProgress(status) ==
    /\ \/ vmStatus = "NotFound" /\ status = "Creating"
       \/ vmStatus = "Creating" /\ status \in {"Succeeded", "Failed"}
    /\ vmStatus' = status
    /\ UNCHANGED <<queue, invocation, timers, maxRetries, polls, sent,
                   crashes, poisoned>>
    /\ UNCHANGED notPollVars

PollerNext ==
    \/ \E m \in queue : Deliver(m)
    \/ \E observed \in VmStatuses \cup {"Error"} : StatusChecked(observed)
    \/ LogUploaded
    \/ LogUploadFailed
    \/ \E t \in timers : TimerFired(t)
    \/ \E t \in timers : TimerSendFailed(t)
    \/ Crash
    \/ \E status \in VmStatuses : VmProgress(status)

SpecPoller == PollerInit /\ [][PollerNext]_vars

\* ------------------------------------------------------------------------
\* The same, with a queue that can deliver a message more than once
\* ------------------------------------------------------------------------

\* deliveries in one run that leave a copy of the message in the queue
MaxDuplicates == 1

\* the host dequeues a message and invokes vmCreationPoller with it, and
\* the message stays in the queue as well: it will be delivered again
DuplicateDelivered(m) ==
    /\ duplicates < MaxDuplicates
    /\ invocation.stage = "none"
    /\ m \in queue
    /\ duplicates' = duplicates + 1
    /\ invocation' = [stage |-> "checking",
                      msg |-> [m EXCEPT !.dequeueCount = @ + 1]]
    /\ UNCHANGED <<queue, timers, vmStatus, maxRetries, polls, sent, crashes,
                   poisoned>>
    /\ UNCHANGED <<orchVars, delayVars, classifyVars, createVars, intakeVars,
                   entryVars, breakerVars>>

\* the poller with duplicate delivery as the only fault: no crash, no
\* failure of the log upload or of the send
AtLeastOnceNext ==
    \/ \E m \in queue : Deliver(m)
    \/ \E m \in queue : DuplicateDelivered(m)
    \/ \E observed \in VmStatuses \cup {"Error"} : StatusChecked(observed)
    \/ LogUploaded
    \/ \E t \in timers : TimerFired(t)
    \/ \E status \in VmStatuses : VmProgress(status)

SpecAtLeastOnce == PollerInit /\ [][AtLeastOnceNext]_vars

\* ------------------------------------------------------------------------
\* createVmActivity and createVmAsyncActivity, for one creation unit
\* ------------------------------------------------------------------------

Activities == {"createVmActivity", "createVmAsyncActivity"}

\* sourceSnapshot.diskProfile
DiskProfiles == {"os-disk", "data-disk"}

\* message.includes(needle)
MessageIncludes(message, needle) ==
    \E k \in 1..Len(message) : message[k] = needle

\* new VmError(message), new StorageQueueError(message),
\* new Error(vmCreationResult.error): an Error with a message only
PlainError(message) == Err("Error", 0, "", "Error", message)

\* what VmManager raises when the fixed private IP address of the network
\* interface lies outside the target subnet
IpOutsideSubnet ==
    PlainError(<<"Unable to create vm from snapshot ",
                 "Unable to create ", "network", " interface ",
                 "does not belong to the range of subnet prefix">>)

\* the failures of createDiskFromSnapshot explored
DiskFailures ==
    { PlainError(<<"Unable to create disk from snapshot ", "quota">>),
      PlainError(<<"Unable to create disk from snapshot ", "NotFound">>),
      PlainError(<<"Unable to create disk from snapshot ", "boom">>) }

\* the failures of createVirtualMachine and createVirtualMachineAsync
\* explored
VmFailures ==
    { IpOutsideSubnet,
      PlainError(<<"Unable to create vm from snapshot ", "already exists">>),
      PlainError(<<"Unable to create vm from snapshot ", "Forbidden">>),
      PlainError(<<"Unable to create vm from snapshot ", "boom">>) }

\* the rules of classifyVmManagerError in createvmactivity.ts, in order
VmManagerRules ==
    << [needles |-> {"does not belong to the range of subnet prefix"},
        cls |-> "PermanentError",
        text |-> " failed - IP address does not belong to the range of subnet prefix: "],
       [needles |-> {"quota", "limit"}, cls |-> "TransientError",
        text |-> " failed due to quota limits: "],
       [needles |-> {"already exists", "ConflictError"},
        cls |-> "PermanentError",
        text |-> " failed - resource already exists: "],
       [needles |-> {"Unauthorized", "Forbidden",
                     "does not have authorization"},
        cls |-> "PermanentError",
        text |-> " failed - authentication/authorization error: "],
       [needles |-> {"timeout", "network", "connection"},
        cls |-> "TransientError",
        text |-> " failed due to network issues: "],
       [needles |-> {"throttle", "rate limit"}, cls |-> "TransientError",
        text |-> " failed due to rate limiting: "],
       [needles |-> {"NotFound", "does not exist"}, cls |-> "PermanentError",
        text |-> " failed - resource not found: "] >>

\* the rules of classifyVmManagerError in createvmasyncactivity.ts, in order
VmManagerRulesAsync ==
    << [needles |-> {"quota", "limit"}, cls |-> "TransientError",
        text |-> " failed due to quota limits: "],
       [needles |-> {"already exists", "ConflictError"},
        cls |-> "PermanentError",
        text |-> " failed - resource already exists: "],
       [needles |-> {"Unauthorized", "Forbidden"}, cls |-> "PermanentError",
        text |-> " failed - authentication/authorization error: "],
       [needles |-> {"timeout", "network", "connection"},
        cls |-> "TransientError",
        text |-> " failed due to network issues: "],
       [needles |-> {"throttle", "rate limit"}, cls |-> "TransientError",
        text |-> " failed due to rate limiting: "],
       [needles |-> {"NotFound", "does not exist"}, cls |-> "PermanentError",
        text |-> " failed - resource not found: "] >>

RulesOf(activity) ==
    IF activity = "createVmActivity" THEN VmManagerRules
    ELSE VmManagerRulesAsync

\* a rule applies when the message includes one of its needles
RuleApplies(rule, error) ==
    \E needle \in rule.needles : MessageIncludes(error.message, needle)

\* the first rule from position k on that applies, or the default
\* classification
RECURSIVE ApplyRules(_, _, _, _)
ApplyRules(rules, k, error, operation) ==
    IF k > Len(rules) THEN classifyError(error)
    ELSE IF RuleApplies(rules[k], error)
    THEN Err(rules[k].cls, 0, "", rules[k].cls,
             <<operation, rules[k].text>> \o error.message)
    ELSE ApplyRules(rules, k + 1, error, operation)

\* classifyVmManagerError(error, operation) of an activity
classifyVmManagerError(activity, error, operation) ==
    ApplyRules(RulesOf(activity), 1, error, operation)

\* the required fields of the input, one of which may be missing
RequiredFields == {"sourceSnapshot", "targetSubnetId", "targetResourceGroup"}

\* the PermanentError of the input validation: one message for all fields
\* in createVmActivity, one per field in createVmAsyncActivity
InputRequiredError(activity, field) ==
    Err("PermanentError", 0, "", "PermanentError",
        IF activity = "createVmActivity"
        THEN <<"Input is required (sourceSnapshot, targetSubnetId, targetResourceGroup)">>
        ELSE IF field = "input" THEN <<"Input is required">>
        ELSE <<field, " is required">>)

\* a business rule that lets every disk profile through
NotAnOsDisk_Never(diskProfile) == FALSE

\* input.sourceSnapshot.diskProfile !== 'os-disk'
NotAnOsDisk(diskProfile) == diskProfile # "os-disk"

\* throw new BusinessError(`Cannot create VM from ... snapshot. ...`)
OnlyOsDiskError(diskProfile) ==
    Err("BusinessError", 0, "", "BusinessError",
        <<"Cannot create VM from ", diskProfile,
          " snapshot. Only os-disk snapshots are supported.">>)

UnitResult(kind, success, error) ==
    [kind |-> kind, success |-> success, error |-> error]

\* the activity was called with a complete input
CreateInit ==
    /\ OrchestratorIdle
    /\ PollerIdle
    /\ DelayIdle
    /\ duplicates = 0
    /\ pollEntry = NoPollEntry
    /\ breaker = NoBreaker
    /\ classified = NoClassified
    /\ intake = NoIntake
    /\ \E activity \in Activities, diskProfile \in DiskProfiles,
          missing \in RequiredFields \cup {"input", "none"} :
          unit = [NoUnit EXCEPT !.activity = activity,
                                !.missing = missing,
                                !.diskProfile = diskProfile,
                                !.pc = "start"]

notCreateVars == <<orchVars, pollVars, delayVars, dupVars, classifyVars,
                   intakeVars, entryVars, breakerVars>>

\* input.sourceSnapshot?.id in the outer catch, for an input that is
\* undefined
InputTypeError ==
    Err("Error", 0, "", "TypeError",
        <<"Cannot read properties of ", "undefined">>)

\* the outer catch: classifyError(error), then the failure message is made
\* from input.sourceSnapshot?.id, which throws out of the catch when the
\* input itself is missing; otherwise the 'Restore Failed' entry is handed to
\* uploadLog
OuterCatch(u, raw, error) ==
    IF u.missing = "input"
    THEN [u EXCEPT !.raw = raw, !.caught = classifyError(error),
                   !.pc = "done",
                   !.result = UnitResult("threw", FALSE, InputTypeError)]
    ELSE [u EXCEPT !.raw = raw, !.caught = classifyError(error),
                   !.pc = "logFailed"]

\* the input passed the checks, or the business rule threw
Validated ==
    /\ unit.pc = "start"
    /\ unit' = IF unit.missing # "none"
               THEN OuterCatch(unit, NoError,
                               InputRequiredError(unit.activity, unit.missing))
               ELSE IF NotAnOsDisk(unit.diskProfile)
               THEN OuterCatch(unit, NoError,
                               OnlyOsDiskError(unit.diskProfile))
               ELSE [unit EXCEPT !.pc = "logStart"]
    /\ UNCHANGED notCreateVars

\* jobStatus of the entry handed to uploadLog at a point of the activity
EntryAt(point) ==
    CASE point = "logEnd" -> "Restore Completed"
      [] point = "logFailed" -> "Restore Failed"
      [] OTHER -> "Restore In Progress"

\* the activity ends after the failure entry: createVmActivity re-throws the
\* classified error, createVmAsyncActivity returns { success: false, error }
Failed(u) ==
    [u EXCEPT !.pc = "done",
              !.result = IF u.activity = "createVmActivity"
                         THEN UnitResult("threw", FALSE, u.caught)
                         ELSE UnitResult("returned", FALSE, u.caught)]

\* uploadLog returned
UploadReturned ==
    /\ unit.pc \in {"logStart", "logEnd", "logPolling", "logFailed"}
    /\ LET u == [unit EXCEPT !.logs = Append(@, EntryAt(unit.pc))]
       IN unit' =
            CASE unit.pc = "logStart" -> [u EXCEPT !.pc = "disk"]
              [] unit.pc = "logFailed" -> Failed(u)
              [] OTHER ->
                   \* return vm; return vmCreationResult
                   [u EXCEPT !.pc = "done",
                             !.result = UnitResult("returned", TRUE, NoError)]
    /\ UNCHANGED notCreateVars

\* uploadLog threw: swallowed after the failure entry, caught by the try
\* around the VM creation after the polling entry, by the outer catch
\* otherwise
UploadThrew ==
    /\ unit.pc \in {"logStart", "logEnd", "logPolling", "logFailed"}
    /\ unit' =
          CASE unit.pc = "logFailed" -> Failed(unit)
            [] unit.pc = "logPolling" ->
                 OuterCatch(unit, LogIngestionError,
                            classifyVmManagerError(unit.activity,
                                                   LogIngestionError,
                                                   "VM creation"))
            [] OTHER -> OuterCatch(unit, LogIngestionError, LogIngestionError)
    /\ UNCHANGED notCreateVars

\* createDiskFromSnapshot returned
DiskCreated ==
    /\ unit.pc = "disk"
    /\ unit' = [unit EXCEPT !.effects = @ \cup {"disk"}, !.pc = "vm"]
    /\ UNCHANGED notCreateVars

\* createDiskFromSnapshot threw
DiskFailed(error) ==
    /\ unit.pc = "disk"
    /\ unit' = OuterCatch(unit, error,
                          classifyVmManagerError(unit.activity, error,
                                                 "disk creation"))
    /\ UNCHANGED notCreateVars

\* createVirtualMachine returned the VM; createVirtualMachineAsync returned
\* { success: true, pollerMessage }
VmCreated ==
    /\ unit.pc = "vm"
    /\ unit' = [unit EXCEPT
                  !.effects = @ \cup {"nic", "vm"},
                  !.pc = IF unit.activity = "createVmActivity" THEN "logEnd"
                         ELSE "send"]
    /\ UNCHANGED notCreateVars

\* createVirtualMachine threw; createVirtualMachineAsync returned
\* { success: false, error } and the activity threw new Error(error)
VmFailed(error) ==
    /\ unit.pc = "vm"
    /\ unit' = OuterCatch(unit, error,
                          classifyVmManagerError(unit.activity, error,
                                                 "VM creation"))
    /\ UNCHANGED notCreateVars

\* sendMessage(pollerMessage, baseDelay) returned
PollMessageSent ==
    /\ unit.pc = "send"
    /\ unit' = [unit EXCEPT !.effects = @ \cup {"pollMessage"},
                            !.pc = "logPolling"]
    /\ UNCHANGED notCreateVars

\* sendMessage threw a StorageQueueError
PollMessageFailed ==
    /\ unit.pc = "send"
    /\ LET error == PlainError(<<"Unable to send message">>)
       IN unit' = OuterCatch(unit, error,
                             classifyVmManagerError(unit.activity, error,
                                                    "VM creation"))
    /\ UNCHANGED notCreateVars

CreateNext ==
    \/ Validated
    \/ UploadReturned
    \/ UploadThrew
    \/ DiskCreated
    \/ \E error \in DiskFailures : DiskFailed(error)
    \/ VmCreated
    \/ \E error \in VmFailures : VmFailed(error)
    \/ PollMessageSent
    \/ PollMessageFailed

SpecCreate == CreateInit /\ [][CreateNext]_vars

\* ------------------------------------------------------------------------
\* common/errors.ts: classifyError on the values a catch clause can receive
\* ------------------------------------------------------------------------

\* The values of a catch clause that are no objects: null, undefined and a
\* string. A string has none of the properties the classifier reads.
NullValue == Err("null", 0, "", "", <<>>)
UndefinedValue == Err("undefined", 0, "", "", <<>>)
StringValue == Err("string", 0, "", "", <<>>)

RawStatusCodes == {0, 404, 429, 500}
RawCodes == {"", "ETIMEDOUT", "ECONNRESET", "NotFound"}
RawNames == {"Error", "ValidationError"}
RawMessages == {<<>>, <<"boom">>, <<"validation">>}

\* Error instances and plain objects, with or without statusCode, code,
\* name and message
RawObjects ==
    { Err("Error", statusCode, code, name, message) :
        statusCode \in RawStatusCodes, code \in RawCodes,
        name \in RawNames, message \in RawMessages }

\* the errors the two classifyVmManagerError functions hand to the outer
\* catch of their activity
VmManagerClassified ==
    { classifyVmManagerError(activity, error, operation) :
        activity \in Activities, error \in DiskFailures \cup VmFailures,
        operation \in {"disk creation", "VM creation"} }

RawInputs ==
    {NullValue, UndefinedValue, StringValue} \cup RawObjects
        \cup { e \in ActivityFailures : IsAppError(e) } \cup VmManagerClassified

\* reading a property of null or undefined throws a TypeError
PropertyAccessThrows(error) == error.cls \in {"null", "undefined"}

TypeErrorOf(error) ==
    Err("Error", 0, "", "TypeError",
        <<"Cannot read properties of ", error.cls>>)

notClassifyVars == <<orchVars, pollVars, delayVars, dupVars, createVars,
                     intakeVars, entryVars, breakerVars>>

\* a catch clause holds a value and is about to call classifyError
ClassifyInit ==
    /\ OrchestratorIdle
    /\ PollerIdle
    /\ DelayIdle
    /\ duplicates = 0
    /\ pollEntry = NoPollEntry
    /\ breaker = NoBreaker
    /\ unit = NoUnit
    /\ intake = NoIntake
    /\ \E raw \in RawInputs :
          classified = [NoClassified EXCEPT !.stage = "caught", !.raw = raw]

\* classifyError(error): 'error instanceof AppError' is false for null and
\* undefined, and the next line reads error.statusCode
Classify ==
    /\ classified.stage = "caught"
    /\ classified' =
          IF PropertyAccessThrows(classified.raw)
          THEN [classified EXCEPT !.stage = "classified", !.threw = TRUE,
                                  !.first = TypeErrorOf(classified.raw)]
          ELSE [classified EXCEPT !.stage = "classified",
                                  !.first = classifyError(classified.raw)]
    /\ UNCHANGED notClassifyVars

\* the classified error is thrown on and classified again by the next catch
Reclassify ==
    /\ classified.stage = "classified"
    /\ ~classified.threw
    /\ classified' = [classified EXCEPT !.stage = "reclassified",
                                        !.second = classifyError(classified.first)]
    /\ UNCHANGED notClassifyVars

ClassifyNext ==
    \/ Classify
    \/ Reclassify

SpecClassify == ClassifyInit /\ [][ClassifyNext]_vars

\* ------------------------------------------------------------------------
\* Intake: common/validation.ts, queueStart, httpStart
\* ------------------------------------------------------------------------

IntakeFunctions == {"queueStart", "httpStart"}

\* elements a targetSubnetIds array can hold: a subnet resource id, a string
\* that is no resource id, a value that is no string
SubnetIdValues == {"subnetResourceId", "text", "number"}

MaxSubnetIds == 2

\* targetSubnetIds of a request: missing, a string, or an array
SubnetIdsValues ==
    { [kind |-> "undefined", items |-> <<>>],
      [kind |-> "string", items |-> <<>>] }
    \cup { [kind |-> "array", items |-> ids] :
             ids \in UNION { [1..n -> SubnetIdValues] : n \in 0..MaxSubnetIds } }

\* targetResourceGroup: missing, a resource group name, a string with
\* characters the name pattern does not allow
ResourceGroupValues == {"undefined", "name", "invalidChars"}

\* maxTimeGenerated: missing, a number, an ISO 8601 timestamp, a string of
\* another format, a string of ISO format that names no date (month 13)
MaxTimeGeneratedValues ==
    {"undefined", "number", "isoTimestamp", "otherFormat", "isoNoDate"}

\* useOriginalIpAddress and waitForVmCreationCompletion: both boolean, or
\* one of them missing
FlagsValues == {"booleans", "undefined"}

\* the bodies a request can have: empty, no JSON, the JSON null, an object
RequestBodies == {"empty", "malformed", "null", "object"}

RequestObjects ==
    [targetSubnetIds : SubnetIdsValues,
     targetResourceGroup : ResourceGroupValues,
     maxTimeGenerated : MaxTimeGeneratedValues,
     flags : FlagsValues]

\* isBatchOrchestratorInput(obj) for an object obj
isBatchOrchestratorInput(obj) ==
    /\ obj.targetSubnetIds.kind = "array"
    /\ \A k \in 1..Len(obj.targetSubnetIds.items) :
          obj.targetSubnetIds.items[k] # "number"
    /\ obj.targetResourceGroup # "undefined"
    /\ obj.maxTimeGenerated \notin {"undefined", "number"}
    /\ obj.flags = "booleans"

\* isValidISODateString: the ISO pattern, then the parsed date is a number
\* and prints back as the same string
isValidISODateString(dateString) == dateString = "isoTimestamp"

\* validateMaxTimeGenerated(value) returns (TRUE) or throws (FALSE)
validateMaxTimeGenerated(value) ==
    IF value \notin {"undefined", "number"}
    THEN isValidISODateString(value)
    ELSE FALSE

\* validateBatchOrchestratorInput(obj) returns (TRUE) or throws (FALSE): the
\* error list, 'targetSubnetIds array cannot be empty' included, is only
\* made when the type guard fails
validateBatchOrchestratorInput(obj) ==
    IF ~isBatchOrchestratorInput(obj) THEN FALSE
    ELSE validateMaxTimeGenerated(obj.maxTimeGenerated)

\* the errors of the strict validation
StrictErrors(input) ==
    { k \in 1..Len(input.targetSubnetIds.items) :
        input.targetSubnetIds.items[k] # "subnetResourceId" }
    \cup (IF input.targetResourceGroup # "name" THEN {0} ELSE {})

\* validateBatchOrchestratorInputStrict(obj) returns (TRUE) or throws (FALSE)
validateBatchOrchestratorInputStrict(obj) ==
    IF ~validateBatchOrchestratorInput(obj) THEN FALSE
    ELSE StrictErrors(obj) = {}

notIntakeVars == <<orchVars, pollVars, delayVars, dupVars, classifyVars,
                   createVars, entryVars, breakerVars>>

\* a request has reached one of the intake functions
IntakeInit ==
    /\ OrchestratorIdle
    /\ PollerIdle
    /\ DelayIdle
    /\ duplicates = 0
    /\ pollEntry = NoPollEntry
    /\ breaker = NoBreaker
    /\ classified = NoClassified
    /\ unit = NoUnit
    /\ \E function \in IntakeFunctions, body \in RequestBodies,
          obj \in RequestObjects :
          /\ body # "object" => obj = NoIntake.parsed
          /\ intake = [NoIntake EXCEPT !.function = function,
                                       !.stage = "received",
                                       !.body = body, !.parsed = obj]

\* a rejection that throws to the host, so that the message comes back
Rejected_Throws(dummyId) ==
    intake' = [intake EXCEPT !.stage = "done",
                             !.response = IF intake.function = "queueStart"
                                          THEN "threw" ELSE dummyId]

\* the response of a request that is not accepted: queueStart returns and
\* the message is consumed, httpStart answers with a dummy instance id
Rejected(dummyId) ==
    intake' = [intake EXCEPT !.stage = "done",
                             !.response = IF intake.function = "queueStart"
                                          THEN "consumed" ELSE dummyId]

\* the body is empty
EmptyBody ==
    /\ intake.stage = "received"
    /\ intake.body = "empty"
    /\ Rejected("invalid-request")
    /\ UNCHANGED notIntakeVars

\* JSON.parse, the type guard or the validator, then the strict validation:
\* any throw ends in the catch of the validation block
Validate ==
    /\ intake.stage = "received"
    /\ intake.body # "empty"
    /\ IF intake.body = "malformed"
       THEN Rejected("validation-failed")
       ELSE IF intake.body = "null"
       THEN \* the type guard is falsy, the validator throws
            Rejected("validation-failed")
       ELSE IF ~isBatchOrchestratorInput(intake.parsed)
       THEN \* validateBatchOrchestratorInput throws its error list
            Rejected("validation-failed")
       ELSE IF ~validateBatchOrchestratorInputStrict(intake.parsed)
       THEN Rejected("validation-failed")
       ELSE intake' = [intake EXCEPT !.stage = "validated"]
    /\ UNCHANGED notIntakeVars

\* client.startNew(..., { input }) returned an instance id
StartNew ==
    /\ intake.stage = "validated"
    /\ intake' = [intake EXCEPT !.stage = "done", !.started = TRUE,
                                !.response = IF intake.function = "queueStart"
                                             THEN "consumed"
                                             ELSE "internal-error"]
    /\ UNCHANGED notIntakeVars

\* client.startNew threw: queueStart throws on, httpStart answers
StartNewFailed ==
    /\ intake.stage = "validated"
    /\ intake' = [intake EXCEPT !.stage = "done",
                                !.response = IF intake.function = "queueStart"
                                             THEN "threw"
                                             ELSE "internal-error"]
    /\ UNCHANGED notIntakeVars

IntakeNext ==
    \/ EmptyBody
    \/ Validate
    \/ StartNew
    \/ StartNewFailed

SpecIntake == IntakeInit /\ [][IntakeNext]_vars

\* ------------------------------------------------------------------------
\* vmCreationPoller: the queue item, the catch
\* ------------------------------------------------------------------------

\* what the queue item holds: text that is no JSON, the JSON null, or an
\* object
ItemForms == {"unparsable", "null", "object"}

\* the fields the poller requires of a poll message
RequiredPollFields == {"vmName", "targetResourceGroup", "operationId"}

\* the failures of the steps after the validation, as they are thrown: of
\* the VmManager constructor, the queue and the log upload
PollStepFailures ==
    { LogIngestionError,
      Err("Error", 0, "", "Error", <<"Failed to schedule VM poll retry">>),
      Err("Error", 429, "TooManyRequests", "RestError", <<"throttled">>),
      Err("PermanentError", 0, "", "PermanentError", <<"Invalid resource id">>),
      Err("Error", 0, "", "ValidationError", <<"validation">>) }

notEntryVars == <<orchVars, pollVars, delayVars, dupVars, classifyVars,
                  createVars, intakeVars, breakerVars>>

\* the host invokes vmCreationPoller with a queue item
EntryInit ==
    /\ OrchestratorIdle
    /\ PollerIdle
    /\ DelayIdle
    /\ duplicates = 0
    /\ classified = NoClassified
    /\ unit = NoUnit
    /\ intake = NoIntake
    /\ breaker = NoBreaker
    /\ \E form \in ItemForms, missing \in SUBSET RequiredPollFields,
          hasSnapshot \in BOOLEAN, dequeueCount \in 1..MaxDeliveries :
          /\ form # "object" => (missing = {} /\ ~hasSnapshot)
          /\ pollEntry = [NoPollEntry EXCEPT !.stage = "parse",
                                             !.form = form,
                                             !.missing = missing,
                                             !.hasSnapshot = hasSnapshot,
                                             !.dequeueCount = dequeueCount]

\* the catch of vmCreationPoller: a PermanentError is logged and the
\* function returns, any other error is thrown to the host
EntryCatch(error) ==
    [pollEntry EXCEPT !.stage = "done", !.caught = classifyError(error),
                      !.response = IF IsPermanentError(classifyError(error))
                                   THEN "returned" ELSE "threw"]

\* JSON.parse of the message text
Parsed ==
    /\ pollEntry.stage = "parse"
    /\ pollEntry' =
          IF pollEntry.form = "unparsable"
          THEN EntryCatch(Err("PermanentError", 0, "", "PermanentError",
                              <<"Invalid queue message format">>))
          ELSE [pollEntry EXCEPT !.stage = "validate"]
    /\ UNCHANGED notEntryVars

\* !pollMessage.vmName || !pollMessage.targetResourceGroup ||
\* !pollMessage.operationId: reading a property of null throws
FieldsValidated ==
    /\ pollEntry.stage = "validate"
    /\ pollEntry' =
          IF pollEntry.form = "null"
          THEN EntryCatch(TypeErrorOf(NullValue))
          ELSE IF pollEntry.missing # {}
          THEN EntryCatch(Err("PermanentError", 0, "", "PermanentError",
                              <<"Missing required fields in poll message">>))
          ELSE [pollEntry EXCEPT !.stage = "subscription"]
    /\ UNCHANGED notEntryVars

\* extractSubscriptionIdFromResourceId(pollMessage.sourceSnapshot.id)
SubscriptionExtracted ==
    /\ pollEntry.stage = "subscription"
    /\ pollEntry' =
          IF ~pollEntry.hasSnapshot
          THEN EntryCatch(Err("Error", 0, "", "TypeError",
                              <<"Cannot read properties of ", "undefined">>))
          ELSE [pollEntry EXCEPT !.stage = "check"]
    /\ UNCHANGED notEntryVars

\* the status check and the branch taken for it ran to the end
EntryReturned ==
    /\ pollEntry.stage = "check"
    /\ pollEntry' = [pollEntry EXCEPT !.stage = "done", !.checked = TRUE,
                                      !.response = "returned"]
    /\ UNCHANGED notEntryVars

\* a step after the validation threw
EntryStepFailed(error) ==
    /\ pollEntry.stage = "check"
    /\ pollEntry' = [EntryCatch(error) EXCEPT !.checked = TRUE]
    /\ UNCHANGED notEntryVars

EntryNext ==
    \/ Parsed
    \/ FieldsValidated
    \/ SubscriptionExtracted
    \/ EntryReturned
    \/ \E error \in PollStepFailures : EntryStepFailed(error)

SpecPollEntry == EntryInit /\ [][EntryNext]_vars

\* ------------------------------------------------------------------------
\* CircuitBreaker
\* ------------------------------------------------------------------------

\* calls of execute in one run
MaxCalls == 3

\* the largest failureThreshold explored (default 5)
MaxThreshold == 2

\* the largest value of the clock, and the timeouts explored (default 60000)
MaxClock == 4

BreakerTimeouts == {1, 2}

\* a test that lets a call through as soon as any time has passed
TimeoutElapsed_AnyTime(now, lastFailureTime, timeoutMs) ==
    now - lastFailureTime > 0

\* Date.now() - this.lastFailureTime > this.timeoutMs
TimeoutElapsed(now, lastFailureTime, timeoutMs) ==
    now - lastFailureTime > timeoutMs

\* throw new TransientError('Circuit breaker is OPEN')
CircuitOpenError ==
    Err("TransientError", 0, "", "TransientError", <<"Circuit breaker is OPEN">>)

\* one call of execute: the state it found and the clock and the last
\* failure time at its entry, the state it went on with, where it is, and
\* what it threw
BreakerCall(found, at, last, as, stage, error) ==
    [found |-> found, at |-> at, last |-> last, as |-> as, stage |-> stage,
     error |-> error]

notBreakerVars == <<orchVars, pollVars, delayVars, dupVars, classifyVars,
                    createVars, intakeVars, entryVars>>

\* new CircuitBreaker(failureThreshold, timeoutMs)
BreakerInit ==
    /\ OrchestratorIdle
    /\ PollerIdle
    /\ DelayIdle
    /\ duplicates = 0
    /\ classified = NoClassified
    /\ unit = NoUnit
    /\ intake = NoIntake
    /\ pollEntry = NoPollEntry
    /\ \E failureThreshold \in 1..MaxThreshold, timeoutMs \in BreakerTimeouts :
          breaker = [NoBreaker EXCEPT !.failureThreshold = failureThreshold,
                                      !.timeoutMs = timeoutMs,
                                      !.now = 1]

\* time passes
Tick ==
    /\ breaker.now < MaxClock
    /\ breaker' = [breaker EXCEPT !.now = @ + 1]
    /\ UNCHANGED notBreakerVars

\* execute(operation) is called and runs up to 'await operation()': an OPEN
\* breaker becomes HALF_OPEN once the timeout has elapsed and rejects the
\* call before that
Execute ==
    /\ Len(breaker.calls) < MaxCalls
    /\ breaker' =
          IF breaker.state = "OPEN"
          THEN IF TimeoutElapsed(breaker.now, breaker.lastFailureTime,
                                 breaker.timeoutMs)
               THEN [breaker EXCEPT
                       !.state = "HALF_OPEN",
                       !.calls = Append(@, BreakerCall("OPEN", breaker.now,
                                                       breaker.lastFailureTime,
                                                       "HALF_OPEN", "running",
                                                       NoError))]
               ELSE [breaker EXCEPT
                       !.calls = Append(@, BreakerCall("OPEN", breaker.now,
                                                       breaker.lastFailureTime,
                                                       "OPEN", "rejected",
                                                       CircuitOpenError))]
          ELSE [breaker EXCEPT
                  !.calls = Append(@, BreakerCall(breaker.state, breaker.now,
                                                  breaker.lastFailureTime,
                                                  breaker.state, "running",
                                                  NoError))]
    /\ UNCHANGED notBreakerVars

\* the operation of call k resolved
OperationSucceeded(k) ==
    /\ k \in 1..Len(breaker.calls)
    /\ breaker.calls[k].stage = "running"
    /\ breaker' =
          IF breaker.state = "HALF_OPEN"
          THEN [breaker EXCEPT !.state = "CLOSED", !.failures = 0,
                               !.calls[k].stage = "returned"]
          ELSE [breaker EXCEPT !.calls[k].stage = "returned"]
    /\ UNCHANGED notBreakerVars

\* the operation of call k rejected with error
OperationFailed(k, error) ==
    /\ k \in 1..Len(breaker.calls)
    /\ breaker.calls[k].stage = "running"
    /\ breaker' =
          [breaker EXCEPT
             !.failures = @ + 1,
             !.lastFailureTime = breaker.now,
             !.state = IF breaker.failures + 1 >= breaker.failureThreshold
                       THEN "OPEN" ELSE @,
             !.calls[k].stage = "threw",
             !.calls[k].error = error]
    /\ UNCHANGED notBreakerVars

BreakerNext ==
    \/ Tick
    \/ Execute
    \/ \E k \in 1..MaxCalls : OperationSucceeded(k)
    \/ \E k \in 1..MaxCalls :
          OperationFailed(k, Err("Error", 503, "", "RestError", <<"boom">>))

SpecBreaker == BreakerInit /\ [][BreakerNext]_vars

\* ------------------------------------------------------------------------
\* Properties
\* ------------------------------------------------------------------------

\* the orchestrator left the batch loop with the aggregate
ReturnedAggregate == pc = "returned" /\ returned.totalProcessed # NoCount

\* the batch (counted from 0) a snapshot position falls in
BatchOf(idx) == (idx - 1) \div batchSize

\* ceil(n / b)
NumBatches(n, b) == (n + b - 1) \div b

\* the snapshots for which the create activity was called
Dispatched == { idx \in 1..Len(tasks) :
                  tasks[idx].state \in {"pending", "completed", "failed"} }

\* the snapshots whose create activity failed
FailedUnits == { idx \in 1..Len(tasks) : tasks[idx].state = "failed" }

RECURSIVE Flatten(_)
Flatten(seqs) == IF seqs = <<>> THEN <<>> ELSE Head(seqs) \o Flatten(Tail(seqs))

\* C1: when some but not all of the dispatched creation units fail, all of
\* them with non-fatal errors, the orchestration does not abort, and the
\* result it returns has success = true, successful = N - k, failed = k for
\* the N dispatched units and the k failed ones.
C1_NonFatalFailuresDoNotAbort ==
    LET k == Cardinality(FailedUnits)
        n == Cardinality(Dispatched)
    IN (/\ 0 < k
        /\ k < n
        /\ \A idx \in FailedUnits : ~IsFatalError(tasks[idx].error))
       => /\ pc # "threw"
          /\ ReturnedAggregate =>
                /\ returned.success
                /\ returned.successful = n - k
                /\ returned.failed = Len(tasks) - (n - k)

\* C2: when a creation unit of a batch fails with a fatal error, the
\* orchestration aborts with a fatal error of that batch, no unit of a
\* later batch is dispatched and no timer is created after the failure.
C2_FatalAbortsWithThatError ==
    \A idx \in FailedUnits :
        IsFatalError(tasks[idx].error) =>
            /\ pc \in {"join", "threw"}
            /\ pc = "threw" =>
                  \E f \in FailedUnits :
                      /\ BatchOf(f) = BatchOf(idx)
                      /\ IsFatalError(tasks[f].error)
                      /\ thrown = tasks[f].error
            /\ \A later \in 1..Len(tasks) :
                  BatchOf(later) > BatchOf(idx) => tasks[later].state = "none"
            /\ batchTimers = (IF delayBetweenBatches > 0 THEN BatchOf(idx) ELSE 0)

\* C3: no creation unit of a batch is dispatched before every unit of each
\* earlier batch has completed (returned a result or failed).
C3_BatchBarrier ==
    \A a \in 1..Len(tasks), b \in 1..Len(tasks) :
        (BatchOf(a) < BatchOf(b) /\ tasks[b].state # "none")
            => tasks[a].state \in {"resolved", "completed", "failed"}

\* a unit of the second batch is running, the first batch had several units
C3_Witness ==
    /\ batchSize >= 2
    /\ \E b \in 1..Len(tasks) : BatchOf(b) = 1 /\ tasks[b].state = "pending"

\* C4: the batches dispatched are the consecutive slices of B candidates
\* in candidate order; a run that returns the aggregate has dispatched
\* ceil(N/B) batches, all but the last of B candidates, which together hold
\* every candidate exactly once; with no failure the aggregate reports
\* totalProcessed = N, successful = N, failed = 0.
C4_Partition ==
    LET n == NumSnapshots
    IN /\ Len(batches) <= NumBatches(n, batchSize)
       /\ \A k \in 1..Len(batches) :
             /\ k < NumBatches(n, batchSize) => Len(batches[k]) = batchSize
             /\ Len(batches[k]) >= 1
       /\ Flatten(batches) = [k \in 1..Len(Flatten(batches)) |-> k]
       /\ ReturnedAggregate =>
             /\ Len(batches) = NumBatches(n, batchSize)
             /\ Flatten(batches) = [k \in 1..n |-> k]
             /\ (\A idx \in 1..n : tasks[idx].state = "completed") =>
                   /\ returned.success
                   /\ returned.totalProcessed = n
                   /\ returned.successful = n
                   /\ returned.failed = 0

\* a run without failures over batches of uneven size (as 20, 20, 5)
C4_Witness ==
    /\ ReturnedAggregate
    /\ NumSnapshots > batchSize
    /\ NumSnapshots % batchSize # 0
    /\ Len(batches) >= 2
    /\ returned.successful = NumSnapshots

\* C5: with a positive delay there is exactly one timer between the join
\* of a batch and the dispatch of the next and none after the last, so a
\* run through all batches creates ceil(N/B) - 1 timers; with delay 0 no
\* timer is created.
C5_InterBatchTimers ==
    /\ delayBetweenBatches <= 0 => batchTimers = 0
    /\ delayBetweenBatches > 0 =>
          batchTimers = (IF pc = "timer" THEN Len(batches)
                         ELSE IF Len(batches) = 0 THEN 0
                         ELSE Len(batches) - 1)
    /\ pc = "timer" => Len(batches) < NumBatches(NumSnapshots, batchSize)
    /\ ReturnedAggregate =>
          batchTimers = (IF delayBetweenBatches > 0
                         THEN NumBatches(NumSnapshots, batchSize) - 1 ELSE 0)

\* three batches were run with two timers between them
C5_Witness ==
    /\ ReturnedAggregate
    /\ delayBetweenBatches > 0
    /\ Len(batches) = 3
    /\ batchTimers = 2

\* C6: an aggregate returned after the batch loop has totalProcessed =
\* successful + failed = number of resolved candidates, counts as
\* successful exactly the units whose create activity returned, and has
\* success = true exactly when successful >= 1.
C6_AggregateCounts ==
    ReturnedAggregate =>
        /\ returned.totalProcessed = returned.successful + returned.failed
        /\ returned.totalProcessed = NumSnapshots
        /\ returned.successful =
              Cardinality({ idx \in 1..Len(tasks) : tasks[idx].state = "completed" })
        /\ returned.success <=> returned.successful >= 1
        /\ returned.results = allResults
        /\ thrown = NoError

\* an aggregate of a run in which every unit failed
C6_Witness ==
    /\ ReturnedAggregate
    /\ returned.totalProcessed >= 2
    /\ returned.successful = 0
    /\ ~returned.success

\* the snapshot at position idx has a subnet in its own location
HasSubnetInLocation(idx) ==
    \E k \in 1..Len(recoveryInfo.subnetLocations) :
        recoveryInfo.subnetLocations[k].location
            = recoveryInfo.snapshots[idx].location

\* C7: when the candidate resolution succeeds with zero candidates the
\* orchestrator returns (throws nothing) success = false with the "No
\* snapshots found" message, dispatches no creation unit and creates no
\* timer between batches.
C7_ZeroCandidates ==
    (recoveryInfo.defined /\ NumSnapshots = 0) =>
        /\ pc = "returned"
        /\ thrown = NoError
        /\ ~returned.success
        /\ returned.message = "No snapshots found in the same region of subnets"
        /\ returned.totalProcessed = NoCount
        /\ Dispatched = {}
        /\ batches = <<>>
        /\ batchTimers = 0

\* zero candidates were resolved for a request with a located subnet
C7_Witness ==
    /\ recoveryInfo.defined
    /\ NumSnapshots = 0
    /\ Len(recoveryInfo.subnetLocations) > 0
    /\ pc = "returned"

\* candidates and subnet locations are there, no region is shared
NoRegionShared ==
    /\ recoveryInfo.defined
    /\ NumSnapshots > 0
    /\ Len(recoveryInfo.subnetLocations) > 0
    /\ \A idx \in 1..NumSnapshots : ~HasSubnetInLocation(idx)

C10_PermanentFirstAttemptNoRetry ==
    (/\ attempt = 1
     /\ lastError # NoError
     /\ IsPermanentError(lastError) \/ IsFatalError(lastError))
        => /\ pc = "threw"
           /\ thrown = lastError
           /\ snapshotCalls = 1
           /\ backoffTimers = 0
           /\ ~recoveryInfo.defined
           /\ tasks = <<>>
           /\ batches = <<>>

\* the first attempt failed with a permanent error
C10_Witness ==
    /\ pc = "threw"
    /\ attempt = 1
    /\ thrown.cls = "PermanentError"
    /\ snapshotCalls = 1



\* ------------------------------------------------------------------------
\* The retry loop of the candidate resolution
\* ------------------------------------------------------------------------

\* every failed attempt so far was one the loop retries
OnlyRetriedFailures == \A k \in 1..Len(failures) : ~DontRetry(failures[k])

\* C11: the candidate resolution is attempted at most three times; a failure
\* the loop retries on attempt 1 or 2 is followed by exactly one backoff timer
\* and the next attempt; a success on any attempt goes on to the batch loop;
\* three such failures abort the run with the error of the third attempt and
\* no creation unit is dispatched.
C11_AtMostThreeAttempts ==
    /\ attempt <= maxAttempts
    /\ snapshotCalls = attempt
    /\ Len(failures) <= attempt
    /\ pc = "backoff" =>
          /\ attempt < maxAttempts
          /\ Len(failures) = attempt
          /\ backoffTimers = attempt
    /\ pc = "awaitSnapshots" =>
          /\ Len(failures) = attempt - 1
          /\ backoffTimers = attempt - 1
          /\ OnlyRetriedFailures
    /\ recoveryInfo.defined =>
          /\ Len(failures) = attempt - 1
          /\ backoffTimers = attempt - 1
          /\ OnlyRetriedFailures
          /\ pc \in {"join", "timer", "returned", "threw"}
          /\ (pc = "threw" => firstError # NoError)
    /\ (Len(failures) = maxAttempts /\ OnlyRetriedFailures) =>
          /\ pc = "threw"
          /\ thrown = failures[maxAttempts]
          /\ ~recoveryInfo.defined
          /\ backoffTimers = maxAttempts - 1
          /\ tasks = <<>>
          /\ batches = <<>>
          /\ Dispatched = {}

\* three transient failures in a row ended the run
C11_Witness ==
    /\ pc = "threw"
    /\ attempt = maxAttempts
    /\ Len(failures) = maxAttempts
    /\ \A k \in 1..maxAttempts : IsTransientError(failures[k])
    /\ thrown = failures[maxAttempts]
    /\ backoffTimers = maxAttempts - 1

\* C12: an attempt whose failure is classified as not retryable is the last
\* attempt of the orchestrator's loop: the error is raised after exactly that
\* attempt, no backoff timer and no further attempt follow.
C12_NotRetryableIsNeverRetried ==
    \A k \in 1..Len(failures) :
        ~isRetryable(failures[k]) =>
            /\ k = Len(failures)
            /\ pc = "threw"
            /\ thrown = failures[k]
            /\ snapshotCalls = k
            /\ backoffTimers = k - 1


\* ------------------------------------------------------------------------
\* The delays between attempts
\* ------------------------------------------------------------------------

\* a delay was computed at the call site
DelayAt(site) == delayCalc.site = site /\ delayCalc.attempt >= 1

\* C13: at each of the three call sites the delay does not decrease from one
\* attempt to the next and is never above the cap; in executeActivityWithRetry
\* and in the get-snapshots loop the delay of attempt a (counted from 1) is
\* min(base * multiplier^(a-1), cap).
C13_DelayMonotoneAndCapped ==
    (delayCalc.site # "none" /\ delayCalc.attempt >= 1) =>
        /\ FLeq(delayCalc.delay, Frac(delayCalc.cfg.maxDelayMs, 1))
        /\ delayCalc.attempt >= 2 => FLeq(delayCalc.prev, delayCalc.delay)
        /\ delayCalc.site \in {"executeActivityWithRetry", "batchOrchestrator"}
              => FEq(delayCalc.delay,
                     FMin(delayCalc.product,
                          Frac(delayCalc.cfg.maxDelayMs, 1)))

\* the azure policy's second delay is 2000 * 1.5 = 3000 ms, after 2000 ms
C13_Witness ==
    /\ DelayAt("executeActivityWithRetry")
    /\ delayCalc.cfg \in RetryPolicies
    /\ delayCalc.cfg.backoffMultiplier = Frac(3, 2)
    /\ delayCalc.attempt = 2
    /\ FEq(delayCalc.prev, Frac(2000, 1))
    /\ FEq(delayCalc.delay, Frac(3000, 1))


\* ------------------------------------------------------------------------
\* The poll chain of one job
\* ------------------------------------------------------------------------

InProgressObservations == {"NotFound", "Creating"}

\* the status check of poll k found the creation still in progress
FoundInProgress(k) == polls[k].observed \in InProgressObservations

\* a status check of the chain took a terminal branch
ChainTerminal ==
    \E k \in 1..Len(polls) : polls[k].outcome \in TerminalOutcomes

\* nothing is left that could lead to another poll
Quiescent == queue = {} /\ timers = {} /\ invocation.stage = "none"

\* C14: a poll of a message with retryCount = max - 1 that finds the creation
\* in progress takes the FailedTimeout branch: it hands a 'Restore Failed'
\* entry to uploadLog, arms no timer, and no message is ever sent for it.
C14_LastRetryTimesOut ==
    \A k \in 1..Len(polls) :
        (polls[k].retryCount = maxRetries - 1 /\ FoundInProgress(k)) =>
            /\ polls[k].outcome = "FailedTimeout"
            /\ polls[k].entry = "Restore Failed"
            /\ ~polls[k].armed
            /\ \A t \in timers : t.from # polls[k].retryCount
            /\ \A j \in 1..Len(sent) : sent[j].from # polls[k].retryCount

\* the message with retryCount = max - 1 was polled, the creation was in
\* progress, and the invocation has returned after uploading the entry
C14_Witness ==
    /\ Quiescent
    /\ \E k \in 1..Len(polls) :
          /\ polls[k].retryCount = maxRetries - 1
          /\ FoundInProgress(k)
          /\ polls[k].outcome = "FailedTimeout"
          /\ polls[k].ended = "returned"

\* C15: every message in the queue carries a retryCount strictly below the
\* configured maximum.
C15_QueuedCounterBelowMax ==
    \A m \in queue : m.retryCount < maxRetries

\* C16: the message enqueued after an in-progress status check carries the
\* polled message's retryCount + 1.
C16_CounterRaisedByOne ==
    \A j \in 1..Len(sent) : sent[j].retryCount = sent[j].from + 1

\* C17: the message enqueued after an in-progress status check is sent with a
\* visibility delay equal to the backoff computed for that retry.
C17_VisibilityDelayIsBackoff ==
    \A j \in 1..Len(sent) : FEq(sent[j].visDelay, sent[j].backoff)

\* C18: whenever the chain is not terminal and no invocation is running, a
\* poll message of the job is in the queue.
C18_ChainNeverLost ==
    (~ChainTerminal /\ invocation.stage = "none") => queue # {}

\* C19: once an invocation has ended with a terminal outcome, no message of
\* the job is in the queue or about to be sent, none was sent after it, and
\* no status check follows it.
C19_TerminalIsFinal ==
    \A k \in 1..Len(polls) :
        (/\ polls[k].outcome \in TerminalOutcomes
         /\ polls[k].ended \in {"returned", "threw"})
            => /\ k = Len(polls)
               /\ invocation.stage = "none"
               /\ queue = {}
               /\ timers = {}
               /\ \A j \in 1..Len(sent) : sent[j].afterPolls < k

\* C20: no chain makes more status checks than the configured maximum, and a
\* chain of a job that every check found in progress, with no crash and no
\* message given up by the host, has taken the FailedTimeout branch once
\* nothing is left that could lead to another poll.
C20_ChainEndsInTimeout ==
    /\ Len(polls) <= maxRetries
    /\ (/\ Quiescent
        /\ vmStatus \in InProgressObservations
        /\ \A k \in 1..Len(polls) : FoundInProgress(k)
        /\ crashes = 0
        /\ ~poisoned)
          => /\ Len(polls) > 0
             /\ polls[Len(polls)].outcome = "FailedTimeout"


\* ------------------------------------------------------------------------
\* Duplicate delivery
\* ------------------------------------------------------------------------

\* the polls that took a terminal branch, uploaded their entry and returned
FinishedTerminalPolls ==
    { k \in 1..Len(polls) : /\ polls[k].outcome \in TerminalOutcomes
                            /\ polls[k].ended = "returned" }

\* C21: when the queue delivers a message twice, the job still ends with a
\* single terminal outcome, as under single delivery: at most one poll of the
\* chain takes a terminal branch, uploads its entry and returns.
C21_DuplicateDeliverySingleOutcome ==
    Cardinality(FinishedTerminalPolls) <= 1


\* ------------------------------------------------------------------------
\* The create activities
\* ------------------------------------------------------------------------

\* the activity has ended
UnitEnded == unit.result.kind # "none"

\* every operation the unit needs was carried out
UnitOperationsSucceeded ==
    IF unit.activity = "createVmActivity"
    THEN {"disk", "nic", "vm"} \subseteq unit.effects
    ELSE {"disk", "nic", "vm", "pollMessage"} \subseteq unit.effects

\* C22: a failure of uploadLog does not change the outcome of a creation
\* unit: a unit whose disk and VM operations succeeded ends successfully.
C22_LogFailureKeepsUnitSuccessful ==
    (UnitEnded /\ UnitOperationsSucceeded) =>
        /\ unit.result.kind = "returned"
        /\ unit.result.success

\* C27: a creation failure that says the IP address does not belong to the
\* subnet's range is classified permanent, not retryable, by both activities.
C27_IpOutsideSubnetIsPermanent ==
    (unit.raw = IpOutsideSubnet /\ unit.caught # NoError) =>
        /\ IsPermanentError(unit.caught)
        /\ ~isRetryable(unit.caught)

\* C28: a unit whose snapshot is not an OS-disk snapshot fails with a
\* BusinessError that is not retryable before any side effect: no disk,
\* network interface or VM is requested, no poll message is sent, and the
\* only log entry is the failure entry.
C28_NonOsDiskFailsBeforeEffects ==
    (/\ unit.activity \in Activities
     /\ unit.missing = "none"
     /\ unit.diskProfile # "os-disk"
     /\ unit.pc # "start")
        => /\ unit.effects = {}
           /\ unit.caught = OnlyOsDiskError(unit.diskProfile)
           /\ unit.caught.cls = "BusinessError"
           /\ ~isRetryable(unit.caught)
           /\ \A k \in 1..Len(unit.logs) : unit.logs[k] = "Restore Failed"
           /\ UnitEnded =>
                 /\ ~unit.result.success
                 /\ unit.result.error = unit.caught
                 /\ unit.result.kind =
                       IF unit.activity = "createVmActivity" THEN "threw"
                       ELSE "returned"

\* the asynchronous activity ended for a data-disk snapshot
C28_Witness ==
    /\ unit.activity = "createVmAsyncActivity"
    /\ unit.diskProfile = "data-disk"
    /\ unit.missing = "none"
    /\ UnitEnded
    /\ ~unit.result.success
    /\ unit.caught.cls = "BusinessError"
    /\ unit.effects = {}

\* ------------------------------------------------------------------------
\* Properties of classifyError
\* ------------------------------------------------------------------------

ClassifyReturned == classified.stage \in {"classified", "reclassified"}

\* C23: classifyError is total: for every raw value it returns a classified
\* error and never throws.
C23_ClassifyErrorNeverThrows ==
    ClassifyReturned => ~classified.threw

\* the raw value is an object or a string that matches none of the patterns
MatchesNoPattern(error) ==
    /\ error.cls \in {"Error", "string"}
    /\ error.statusCode = 0
    /\ error.code = ""
    /\ error.name # "ValidationError"
    /\ ~MessageIncludesValidation(error)

\* C24: a raw error that matches no pattern is classified transient and
\* retryable.
C24_UnknownErrorIsTransient ==
    (ClassifyReturned /\ MatchesNoPattern(classified.raw))
        => /\ ~classified.threw
           /\ IsTransientError(classified.first)
           /\ isRetryable(classified.first)

C24_Witness ==
    /\ classified.stage = "classified"
    /\ classified.raw = Err("Error", 0, "", "Error", <<"boom">>)
    /\ classified.first.message = <<"Unknown error: ", "boom">>

\* C25: a raw network error with code ETIMEDOUT or ECONNRESET and no HTTP
\* status is classified transient and retryable.
C25_NetworkErrorIsTransient ==
    (/\ ClassifyReturned
     /\ classified.raw.cls = "Error"
     /\ classified.raw.statusCode = 0
     /\ classified.raw.code \in {"ETIMEDOUT", "ECONNRESET"})
        => /\ IsTransientError(classified.first)
           /\ isRetryable(classified.first)

\* C26: classifying a classified error again returns the same error, also
\* for the errors classifyVmManagerError hands to the activity's outer catch.
C26_ClassifyErrorIdempotent ==
    /\ classified.stage = "reclassified"
          => classified.second = classified.first
    /\ (ClassifyReturned /\ classified.raw \in VmManagerClassified)
          => classified.first = classified.raw

C26_Witness ==
    /\ classified.stage = "reclassified"
    /\ ~IsAppError(classified.raw)
    /\ IsTransientError(classified.second)

\* ------------------------------------------------------------------------
\* Termination of batchOrchestrator
\* ------------------------------------------------------------------------

\* C29: the orchestration ends with exactly one terminal result: it never
\* both returns and throws, and its batch loop advances through the
\* candidates, so it runs at most one iteration per candidate before the
\* result, whatever integer batch size and delay the configuration supplies.
C29_OneTerminalResult ==
    /\ ~(returned # NoResult /\ thrown # NoError)
    /\ Len(batches) <= NumSnapshots

\* ------------------------------------------------------------------------
\* Properties of the intake functions
\* ------------------------------------------------------------------------

\* C30: every input an orchestration is started for has at least one target
\* network id and a cutoff timestamp that parses as a valid point in time.
C30_StartedRequestsAreValid ==
    intake.started
        => /\ intake.parsed.targetSubnetIds.kind = "array"
           /\ Len(intake.parsed.targetSubnetIds.items) >= 1
           /\ intake.parsed.maxTimeGenerated = "isoTimestamp"

\* ------------------------------------------------------------------------
\* Concurrency and routing of the creation units
\* ------------------------------------------------------------------------

\* the units dispatched and not yet completed
PendingUnits == { idx \in 1..Len(tasks) : tasks[idx].state = "pending" }

\* C31: the creation units dispatched and not yet completed are at most
\* batchSize many, and all of them belong to the current batch.
C31_ConcurrencyBoundedByBatch ==
    /\ Cardinality(PendingUnits) <= batchSize
    /\ PendingUnits \subseteq BatchIndices(i, batchSize, Len(tasks))

C31_Witness ==
    /\ pc = "join"
    /\ batchSize = MaxBatchSize
    /\ Cardinality(PendingUnits) = batchSize
    /\ \E idx \in 1..Len(tasks) : tasks[idx].state = "none"

\* the units for which createVmActivity was called
DispatchedUnits ==
    { idx \in 1..Len(tasks) :
        tasks[idx].state \in {"pending", "completed", "failed"} }

\* the regions the candidate resolution gave for a subnet id
RegionsOf(subnetId) ==
    { recoveryInfo.subnetLocations[k].location :
        k \in { j \in 1..Len(recoveryInfo.subnetLocations) :
                  recoveryInfo.subnetLocations[j].subnetId = subnetId } }

\* C32: every dispatched creation unit targets a subnet whose resolved
\* region is the region of the unit's snapshot.
C32_UnitsStayInTheirRegion ==
    \A idx \in DispatchedUnits :
        RegionsOf(tasks[idx].subnetId) = {recoveryInfo.snapshots[idx].location}

C32_Witness ==
    /\ Len(recoveryInfo.subnetLocations) = 2
    /\ \E idx \in DispatchedUnits :
          /\ recoveryInfo.snapshots[idx].location = "northeurope"
          /\ tasks[idx].subnetId = "subnetB"
    /\ \E idx \in DispatchedUnits :
          recoveryInfo.snapshots[idx].location = "westeurope"

\* the message parses and passes the validation of the intake functions
PassesValidation ==
    /\ intake.body = "object"
    /\ validateBatchOrchestratorInputStrict(intake.parsed)

\* C33: queueStart starts an orchestration only for a message that parses
\* and passes validation; any other message is consumed by a normal return
\* without a start; a valid message either starts its orchestration or, when
\* startNew fails, makes queueStart throw so that the message is redelivered.
C33_QueueStartConsumesInvalidMessages ==
    (intake.function = "queueStart" /\ intake.stage = "done") =>
        IF PassesValidation
        THEN \/ intake.started /\ intake.response = "consumed"
             \/ ~intake.started /\ intake.response = "threw"
        ELSE ~intake.started /\ intake.response = "consumed"

C33_Witness ==
    /\ intake.function = "queueStart"
    /\ intake.stage = "done"
    /\ intake.body = "object"
    /\ ~isBatchOrchestratorInput(intake.parsed)
    /\ intake.response = "consumed"

\* ------------------------------------------------------------------------
\* Properties of the poller's entry
\* ------------------------------------------------------------------------

\* the message cannot be used: it does not parse, or it has no vmName, no
\* targetResourceGroup or no operationId
UnusableMessage ==
    \/ pollEntry.form \in {"unparsable", "null"}
    \/ pollEntry.form = "object" /\ pollEntry.missing # {}

\* C34: the poller returns normally, without a status check, for a message
\* that does not parse or lacks a required field; a failure that is not
\* classified permanent is thrown to the host.
C34_UnusableMessageDiscarded ==
    pollEntry.stage = "done" =>
        /\ UnusableMessage
              => (pollEntry.response = "returned" /\ ~pollEntry.checked)
        /\ (pollEntry.caught # NoError /\ ~IsPermanentError(pollEntry.caught))
              => pollEntry.response = "threw"

\* C35: a status check that fails with an error other than not-found ends
\* the chain as FailedPermanent: 'Restore Failed' is recorded and no
\* continuation is scheduled; not-found and a provisioning state other than
\* Succeeded and Failed give a continuation message, so the poll ends in a
\* retry or, with the retries used up, in the timeout.
ErrorPollsEndChain ==
    \A k \in 1..Len(polls) :
        /\ polls[k].observed = "Error"
              => /\ polls[k].outcome = "FailedPermanent"
                 /\ polls[k].entry = "Restore Failed"
        /\ polls[k].observed \in {"NotFound", "Creating"}
              => polls[k].outcome \in {"Retry", "FailedTimeout"}

\* the step that records a failed status check arms no timer and puts no
\* message into the queue
ErrorPollEnqueuesNothing ==
    (/\ Len(polls') = Len(polls) + 1
     /\ polls'[Len(polls')].observed = "Error")
        => (timers' = timers /\ queue' = queue /\ sent' = sent)

AsyncUnitEnded == UnitEnded /\ unit.activity = "createVmAsyncActivity"

\* C36: createVmAsyncActivity returns success = true only after the poll
\* message of the unit was enqueued, and success = false only when no poll
\* message was enqueued.
C36_StartedIffPollChainExists ==
    (AsyncUnitEnded /\ unit.result.kind = "returned") =>
        (unit.result.success <=> "pollMessage" \in unit.effects)

\* C37: createVmAsyncActivity never throws: every failure ends in a
\* returned result with success = false and an error.
C37_AsyncActivityNeverThrows ==
    AsyncUnitEnded =>
        /\ unit.result.kind = "returned"
        /\ ~unit.result.success => unit.result.error # NoError

\* ------------------------------------------------------------------------
\* Properties of the CircuitBreaker
\* ------------------------------------------------------------------------

\* C38: a call that finds the breaker OPEN before the timeout has elapsed
\* since the last failure is rejected with the transient 'Circuit breaker is
\* OPEN' error and its operation is not invoked; and the breaker is OPEN
\* only with failures >= failureThreshold.
C38_OpenBreakerRejects ==
    /\ \A k \in 1..Len(breaker.calls) :
          LET call == breaker.calls[k]
          IN (call.found = "OPEN" /\ call.at - call.last <= breaker.timeoutMs)
                => /\ call.stage = "rejected"
                   /\ call.error = CircuitOpenError
                   /\ isRetryable(call.error)
    /\ breaker.state = "OPEN" => breaker.failures >= breaker.failureThreshold

C38_Witness ==
    /\ breaker.failureThreshold = MaxThreshold
    /\ breaker.state = "OPEN"
    /\ \E k \in 1..Len(breaker.calls) :
          /\ breaker.calls[k].stage = "rejected"
          /\ breaker.calls[k].at > breaker.calls[k].last

\* an OPEN breaker whose timeout has elapsed admits the call that finds it
\* so as the HALF_OPEN trial, and no other call is admitted while the
\* breaker is HALF_OPEN
OneTrialCall ==
    \A k \in 1..Len(breaker.calls) :
        LET call == breaker.calls[k]
        IN /\ (call.found = "OPEN" /\ call.at - call.last > breaker.timeoutMs)
                 => call.as = "HALF_OPEN"
           /\ call.found # "HALF_OPEN"

\* the end of a call moves the breaker: out of HALF_OPEN a success closes it
\* with the counter reset and a failure opens it again; while CLOSED a
\* success leaves the counter alone and a failure opens the breaker exactly
\* when the counter reaches the threshold
TrialDecides ==
    \A k \in 1..Len(breaker.calls) :
        (breaker.calls[k].stage = "running"
           /\ Len(breaker'.calls) = Len(breaker.calls)
           /\ breaker'.calls[k].stage # "running")
        => /\ (breaker.state = "HALF_OPEN"
                  /\ breaker'.calls[k].stage = "returned")
                 => (breaker'.state = "CLOSED" /\ breaker'.failures = 0)
           /\ (breaker.state = "HALF_OPEN"
                  /\ breaker'.calls[k].stage = "threw")
                 => breaker'.state = "OPEN"
           /\ (breaker.state = "CLOSED"
                  /\ breaker'.calls[k].stage = "returned")
                 => (breaker'.state = "CLOSED"
                       /\ breaker'.failures = breaker.failures)
           /\ (breaker.state = "CLOSED"
                  /\ breaker'.calls[k].stage = "threw")
                 => /\ breaker'.failures = breaker.failures + 1
                    /\ breaker'.state = "OPEN"
                          <=> breaker'.failures >= breaker.failureThreshold

\* C39: once the timeout has elapsed an OPEN breaker lets exactly the next
\* call through as the HALF_OPEN trial; the trial's success closes the
\* breaker with the failure counter reset, its failure opens it again; a
\* success while CLOSED leaves the counter unchanged, so the breaker opens
\* after failureThreshold failures in total.
C39_HalfOpenTrial ==
    []OneTrialCall /\ [][TrialDecides]_vars

====
